---- MODULE Spec2Model ----
(***************************************************************************)
(* A model of pdf/select_pages.py: the page-expression language            *)
(* (parse_pages), the default output path (build_default_output_path)      *)
(* and the extraction pipeline (extract_pages, main).                      *)
(*                                                                         *)
(* Python strings are modelled as sequences of one-character strings, so   *)
(* that splitting, regular-expression matching and int() are computed on   *)
(* the characters as the code computes them.                               *)
(***************************************************************************)
EXTENDS Integers, Sequences, FiniteSets, TLC

(***************************************************************************)
(* Bounds of the model.                                                    *)
(***************************************************************************)
\* total_pages ranges over 0..MaxPages; page numbers written in tokens
\* range over -1..MaxPages+1, so that 0, negative and too-large numbers occur.
MaxPages == 4
\* steps written in tokens range over -MaxStep..MaxStep (0 included).
MaxStep == 3
\* expressions of several tokens hold at most MaxTokens tokens.
MaxTokens == 2

(***************************************************************************)
(* Characters and strings.                                                 *)
(***************************************************************************)
Digits == <<"0", "1", "2", "3", "4", "5", "6", "7", "8", "9">>

\* The character U+00B2 (superscript two), written "^2": str.isdigit() is true
\* of it, the class \d does not hold it and int() does not read it.
SUPERSCRIPT_TWO == "^2"

\* A decimal digit: the class \d of the regular expressions, and the digits
\* int() reads.
IsDecimal(c) == \E d \in 1..10 : Digits[d] = c

\* str.isdigit() on one character.
IsDigit(c) == IsDecimal(c) \/ c = SUPERSCRIPT_TWO

\* The value of one decimal digit, as int() reads it.
DigitVal(c) == (CHOOSE d \in 1..10 : Digits[d] = c) - 1

\* The regular expression class \s, and what str.strip() removes.
IsSpace(c) == c \in {" ", "\t", "\n"}

\* The separator class [\s,] of the tokenizer.
IsSep(c) == IsSpace(c) \/ c = ","

\* s[i-1:j-1] of Python, for 1-based i and j exclusive.
Slice(s, i, j) == SubSeq(s, i, j - 1)

\* str.isdigit(): non-empty and every character a digit.
IsDigitStr(s) == Len(s) > 0 /\ \A i \in 1..Len(s) : IsDigit(s[i])

\* str.lower() on the letters the code compares.
LowerChar(c) ==
    CASE c = "R" -> "r" [] c = "A" -> "a" [] c = "N" -> "n"
      [] c = "G" -> "g" [] c = "E" -> "e" [] OTHER -> c

Lower(s) == [i \in 1..Len(s) |-> LowerChar(s[i])]

StartsWith(s, p) == Len(s) >= Len(p) /\ SubSeq(s, 1, Len(p)) = p

EndsWith(s, p) == Len(s) >= Len(p) /\ SubSeq(s, Len(s) - Len(p) + 1, Len(s)) = p

\* c in s.
Contains(s, c) == \E i \in 1..Len(s) : s[i] = c

\* The index of the first occurrence of c in s (c occurs in s).
IndexOf(s, c) == CHOOSE i \in 1..Len(s) : s[i] = c /\ \A j \in 1..(i - 1) : s[j] # c

\* str.strip(): leading and trailing whitespace removed.
RECURSIVE LStrip(_)
LStrip(s) == IF Len(s) > 0 /\ IsSpace(s[1]) THEN LStrip(Tail(s)) ELSE s

RECURSIVE RStrip(_)
RStrip(s) ==
    IF Len(s) > 0 /\ IsSpace(s[Len(s)]) THEN RStrip(SubSeq(s, 1, Len(s) - 1)) ELSE s

Strip(s) == RStrip(LStrip(s))

\* str.lstrip('-'): every leading dash removed.
RECURSIVE LStripDash(_)
LStripDash(s) == IF Len(s) > 0 /\ s[1] = "-" THEN LStripDash(Tail(s)) ELSE s

\* The value of a non-empty digit string, most significant digit first.
RECURSIVE DigitsValue(_)
DigitsValue(s) ==
    IF Len(s) = 0 THEN 0
    ELSE 10 * DigitsValue(SubSeq(s, 1, Len(s) - 1)) + DigitVal(s[Len(s)])

\* int(s) for a string the code has checked to be an optional dash and digits.
IntOf(s) == IF s[1] = "-" THEN 0 - DigitsValue(Tail(s)) ELSE DigitsValue(s)

\* str(n) for an integer, as the f-strings and the printed list format it.
RECURSIVE NatStr(_)
NatStr(n) == IF n < 10 THEN <<Digits[n + 1]>> ELSE NatStr(n \div 10) \o <<Digits[(n % 10) + 1]>>

IntStr(n) == IF n < 0 THEN <<"-">> \o NatStr(0 - n) ELSE NatStr(n)

\* Mutation of FloorDiv: division that truncates toward zero.
FloorDiv_Truncating(a, b) ==
    LET aa == IF a < 0 THEN 0 - a ELSE a
        bb == IF b < 0 THEN 0 - b ELSE b
        q  == aa \div bb
    IN  IF (a < 0) = (b < 0) THEN q ELSE 0 - q

\* Python's floor division a // b for b # 0.
FloorDiv(a, b) ==
    LET aa == IF a < 0 THEN 0 - a ELSE a
        bb == IF b < 0 THEN 0 - b ELSE b
        q  == aa \div bb
    IN  IF (a < 0) = (b < 0) \/ a = 0 THEN q
        ELSE IF q * bb = aa THEN 0 - q ELSE 0 - q - 1

(***************************************************************************)
(* The tokenizer: re.split(r"[\s,]+", pages_expr), then the fragments that *)
(* are not empty after strip().                                            *)
(***************************************************************************)
\* The first index >= i of s whose character is no separator (Len(s)+1 if none).
RECURSIVE SkipSep(_, _)
SkipSep(s, i) == IF i <= Len(s) /\ IsSep(s[i]) THEN SkipSep(s, i + 1) ELSE i

\* re.split(r"[\s,]+", s) from index i on, cur being the fragment read so far:
\* every maximal run of separators ends a fragment, empty fragments included.
RECURSIVE ReSplitFrom(_, _, _)
ReSplitFrom(s, i, cur) ==
    IF i > Len(s) THEN <<cur>>
    ELSE IF IsSep(s[i]) THEN <<cur>> \o ReSplitFrom(s, SkipSep(s, i), <<>>)
    ELSE ReSplitFrom(s, i + 1, Append(cur, s[i]))

ReSplit(s) == ReSplitFrom(s, 1, <<>>)

\* [p.strip() for p in frags if p.strip()]
RECURSIVE StripNonEmpty(_)
StripNonEmpty(frags) ==
    IF Len(frags) = 0 THEN <<>>
    ELSE IF Len(Strip(Head(frags))) > 0
         THEN <<Strip(Head(frags))>> \o StripNonEmpty(Tail(frags))
         ELSE StripNonEmpty(Tail(frags))

\* Mutation of SplitParts: the empty fragments are kept.
SplitParts_EmptyKept(expr) == ReSplit(expr)

SplitParts(expr) == StripNonEmpty(ReSplit(expr))

\* inner.split(','): the fragments between single commas, empty ones included.
RECURSIVE SplitCommaFrom(_, _, _)
SplitCommaFrom(s, i, cur) ==
    IF i > Len(s) THEN <<cur>>
    ELSE IF s[i] = "," THEN <<cur>> \o SplitCommaFrom(s, i + 1, <<>>)
    ELSE SplitCommaFrom(s, i + 1, Append(cur, s[i]))

\* nums = [n.strip() for n in inner.split(',') if n.strip()]
RangeNums(inner) == StripNonEmpty(SplitCommaFrom(inner, 1, <<>>))

(***************************************************************************)
(* The two regular expressions of the stepped forms.  A match is computed  *)
(* left to right; each piece is greedy and no backtracking can succeed,    *)
(* because the character after a run of digits or spaces is never one the  *)
(* run could have taken.                                                   *)
(***************************************************************************)
\* The first index >= i of s whose character is no decimal digit: \d+
RECURSIVE SkipDigits(_, _)
SkipDigits(s, i) == IF i <= Len(s) /\ IsDecimal(s[i]) THEN SkipDigits(s, i + 1) ELSE i

\* The first index >= i of s whose character is no whitespace: \s*
RECURSIVE SkipSpace(_, _)
SkipSpace(s, i) == IF i <= Len(s) /\ IsSpace(s[i]) THEN SkipSpace(s, i + 1) ELSE i

\* -?\d+ at index i: the index after the match, or 0 when there is none.
MatchInt(s, i) ==
    LET j == IF i <= Len(s) /\ s[i] = "-" THEN i + 1 ELSE i
        k == SkipDigits(s, j)
    IN  IF i >= 1 /\ k > j THEN k ELSE 0

\* The literal character c at index i: the index after it, or 0.
MatchChar(s, i, c) == IF i >= 1 /\ i <= Len(s) /\ s[i] = c THEN i + 1 ELSE 0

\* $ at index i: the end of the string, or just before a final newline.
AtEnd(s, i) == i = Len(s) + 1 \/ (i = Len(s) /\ s[i] = "\n")

NoMatch == [matched |-> FALSE, start |-> <<>>, end |-> <<>>, step |-> <<>>]

\* re.match(r"^(?P<start>-?\d+)[.]{2}(?P<end>-?\d+)[.]{2}(?P<step>-?\d+)$", part)
ReDoubleDot(part) ==
    LET e1 == MatchInt(part, 1)
        d1 == IF e1 = 0 THEN 0 ELSE MatchChar(part, MatchChar(part, e1, "."), ".")
        e2 == IF d1 = 0 THEN 0 ELSE MatchInt(part, d1)
        d2 == IF e2 = 0 THEN 0 ELSE MatchChar(part, MatchChar(part, e2, "."), ".")
        e3 == IF d2 = 0 THEN 0 ELSE MatchInt(part, d2)
    IN  IF e3 # 0 /\ AtEnd(part, e3)
        THEN [matched |-> TRUE, start |-> Slice(part, 1, e1),
              end |-> Slice(part, d1, e2), step |-> Slice(part, d2, e3)]
        ELSE NoMatch

\* re.match(r"^(?P<start>-?\d+)\s*-\s*(?P<end>-?\d+)\s*:\s*(?P<step>-?\d+)$", part)
ReColon(part) ==
    LET e1 == MatchInt(part, 1)
        h  == IF e1 = 0 THEN 0 ELSE MatchChar(part, SkipSpace(part, e1), "-")
        s2 == IF h = 0 THEN 0 ELSE SkipSpace(part, h)
        e2 == IF s2 = 0 THEN 0 ELSE MatchInt(part, s2)
        c  == IF e2 = 0 THEN 0 ELSE MatchChar(part, SkipSpace(part, e2), ":")
        s3 == IF c = 0 THEN 0 ELSE SkipSpace(part, c)
        e3 == IF s3 = 0 THEN 0 ELSE MatchInt(part, s3)
    IN  IF e3 # 0 /\ AtEnd(part, e3)
        THEN [matched |-> TRUE, start |-> Slice(part, 1, e1),
              end |-> Slice(part, s2, e2), step |-> Slice(part, s3, e3)]
        ELSE NoMatch

\* m = re.match(double dot); if not m: m = re.match(colon)
SteppedMatch(part) ==
    IF ReDoubleDot(part).matched THEN ReDoubleDot(part) ELSE ReColon(part)

(***************************************************************************)
(* Outcomes of parsing: the list selected so far, and the ValueError       *)
(* raised, if any.  An error keeps the text of its message template and    *)
(* the values formatted into it.                                           *)
(***************************************************************************)
NoError == [msg |-> "", part |-> <<>>, a |-> 0, b |-> 0]

Ok(sel) == [ok |-> TRUE, selected |-> sel, err |-> NoError]

Raise(m, p, x, y, sel) ==
    [ok |-> FALSE, selected |-> sel, err |-> [msg |-> m, part |-> p, a |-> x, b |-> y]]

E_EMPTY      == "pages expression cannot be empty"
E_NO_PAGES   == "pages expression did not contain any pages"
E_RANGE_FN   == "Invalid range(...) expression: {part}"
E_INT        == "invalid literal for int() with base 10: {part}"
E_STEP_ZERO  == "range step cannot be 0"
E_POSITIVE   == "Page numbers must be positive"
E_BOUNDS     == "Page {a} out of bounds (total pages: {b})"
E_PROGRESS   == "range step does not progress from {a} to {b}"
E_NEEDS_STEP == "Stepped range requires step: {part}"
E_RANGE      == "Invalid range: {part}"
E_START_END  == "Invalid range (start > end): {part}"
E_PAGE       == "Invalid page number: {part}"

(***************************************************************************)
(* parse_pages: the branches of the loop over the parts.  Each branch      *)
(* takes the list selected so far and gives the outcome of the part: the   *)
(* list with the part's indices appended, or the error raised, with the    *)
(* list as it is at the raise.                                             *)
(***************************************************************************)
\* Mutation of WhileAscending: the out-of-bounds error names end.
RECURSIVE WhileAscending_EndNamed(_, _, _, _, _)
WhileAscending_EndNamed(current, end, step, total, sel) ==
    IF current <= end
    THEN IF current <= 0 THEN Raise(E_POSITIVE, <<>>, 0, 0, sel)
         ELSE IF current > total THEN Raise(E_BOUNDS, <<>>, end, total, sel)
         ELSE WhileAscending_EndNamed(current + step, end, step, total,
                                      Append(sel, current - 1))
    ELSE Ok(sel)

\* Mutation of WhileAscending: the bound check is off by one.
RECURSIVE WhileAscending_OffByOne(_, _, _, _, _)
WhileAscending_OffByOne(current, end, step, total, sel) ==
    IF current <= end
    THEN IF current <= 0 THEN Raise(E_POSITIVE, <<>>, 0, 0, sel)
         ELSE IF current > total + 1 THEN Raise(E_BOUNDS, <<>>, current, total, sel)
         ELSE WhileAscending_OffByOne(current + step, end, step, total,
                                      Append(sel, current - 1))
    ELSE Ok(sel)

\* while current <= end: check current, append current - 1, current += step
RECURSIVE WhileAscending(_, _, _, _, _)
WhileAscending(current, end, step, total, sel) ==
    IF current <= end
    THEN IF current <= 0 THEN Raise(E_POSITIVE, <<>>, 0, 0, sel)
         ELSE IF current > total THEN Raise(E_BOUNDS, <<>>, current, total, sel)
         ELSE WhileAscending(current + step, end, step, total, Append(sel, current - 1))
    ELSE Ok(sel)

\* Mutation of WhileDescending: while current > end, the end excluded.
RECURSIVE WhileDescending_EndExcluded(_, _, _, _, _)
WhileDescending_EndExcluded(current, end, step, total, sel) ==
    IF current > end
    THEN IF current <= 0 THEN Raise(E_POSITIVE, <<>>, 0, 0, sel)
         ELSE IF current > total THEN Raise(E_BOUNDS, <<>>, current, total, sel)
         ELSE WhileDescending_EndExcluded(current + step, end, step, total,
                                          Append(sel, current - 1))
    ELSE Ok(sel)

\* Mutation of WhileDescending: page number 0 passes the positivity check.
RECURSIVE WhileDescending_ZeroAllowed(_, _, _, _, _)
WhileDescending_ZeroAllowed(current, end, step, total, sel) ==
    IF current >= end
    THEN IF current < 0 THEN Raise(E_POSITIVE, <<>>, 0, 0, sel)
         ELSE IF current > total THEN Raise(E_BOUNDS, <<>>, current, total, sel)
         ELSE WhileDescending_ZeroAllowed(current + step, end, step, total,
                                          Append(sel, current - 1))
    ELSE Ok(sel)

\* while current >= end: check current, append current - 1, current += step
RECURSIVE WhileDescending(_, _, _, _, _)
WhileDescending(current, end, step, total, sel) ==
    IF current >= end
    THEN IF current <= 0 THEN Raise(E_POSITIVE, <<>>, 0, 0, sel)
         ELSE IF current > total THEN Raise(E_BOUNDS, <<>>, current, total, sel)
         ELSE WhileDescending(current + step, end, step, total, Append(sel, current - 1))
    ELSE Ok(sel)

\* Mutation of NotProgressing: no step is rejected for its direction.
NotProgressing_Never(start, end, step) == FALSE

\* The test of the progression direction: (end - start) // step < 0
NotProgressing(start, end, step) == FloorDiv(end - start, step) < 0

\* Mutation of SingleValue: the page count is not checked.
SingleValue_NoBounds(start, total, sel) ==
    IF start <= 0 THEN Raise(E_POSITIVE, <<>>, 0, 0, sel)
    ELSE Ok(Append(sel, start - 1))

\* The single value of a stepped form with start == end.
SingleValue(start, total, sel) ==
    IF start <= 0 THEN Raise(E_POSITIVE, <<>>, 0, 0, sel)
    ELSE IF start > total THEN Raise(E_BOUNDS, <<>>, start, total, sel)
    ELSE Ok(Append(sel, start - 1))

\* Mutation of SteppedRange: start == end is handled before the zero-step check.
SteppedRange_SingleBeforeZero(start, end, step, total, sel) ==
    IF start = end THEN SingleValue(start, total, sel)
    ELSE IF step = 0 THEN Raise(E_STEP_ZERO, <<>>, 0, 0, sel)
    ELSE IF NotProgressing(start, end, step) THEN Raise(E_PROGRESS, <<>>, start, end, sel)
    ELSE IF step > 0 THEN WhileAscending(start, end, step, total, sel)
    ELSE WhileDescending(start, end, step, total, sel)

\* Mutation of SteppedRange: the loops advance by one page whatever the step.
SteppedRange_UnitStep(start, end, step, total, sel) ==
    IF step = 0 THEN Raise(E_STEP_ZERO, <<>>, 0, 0, sel)
    ELSE IF start = end THEN SingleValue(start, total, sel)
    ELSE IF NotProgressing(start, end, step) THEN Raise(E_PROGRESS, <<>>, start, end, sel)
    ELSE IF step > 0 THEN WhileAscending(start, end, 1, total, sel)
    ELSE WhileDescending(start, end, 0 - 1, total, sel)

\* A stepped form once start, end and step are integers: the zero-step check,
\* the single value, the direction check, and the loop.
SteppedRange(start, end, step, total, sel) ==
    IF step = 0 THEN Raise(E_STEP_ZERO, <<>>, 0, 0, sel)
    ELSE IF start = end THEN SingleValue(start, total, sel)
    ELSE IF NotProgressing(start, end, step) THEN Raise(E_PROGRESS, <<>>, start, end, sel)
    ELSE IF step > 0 THEN WhileAscending(start, end, step, total, sel)
    ELSE WhileDescending(start, end, step, total, sel)

RANGE_OPEN == <<"r", "a", "n", "g", "e", "(">>

\* part.lower().startswith('range(') and part.endswith(')')
IsRangeFn(part) == StartsWith(Lower(part), RANGE_OPEN) /\ EndsWith(part, <<")">>)

\* int(s) raises for a string that isdigit() accepts (after lstrip('-') in the
\* range( branch) but that is not one optional dash and decimal digits.
IntFails(s) ==
    LET body == IF Len(s) > 0 /\ s[1] = "-" THEN Tail(s) ELSE s
    IN  ~(Len(body) > 0 /\ \A i \in 1..Len(body) : IsDecimal(body[i]))

\* The branch of range(start,end,step).
RangeFnBranch(part, total, sel) ==
    LET inner == SubSeq(part, 7, Len(part) - 1)
        nums  == RangeNums(inner)
    IN  IF Len(nums) # 3 \/ ~(\A i \in 1..Len(nums) : IsDigitStr(LStripDash(nums[i])))
        THEN Raise(E_RANGE_FN, part, 0, 0, sel)
        ELSE IF \E i \in 1..3 : IntFails(nums[i])
        THEN Raise(E_INT, nums[CHOOSE i \in 1..3 : IntFails(nums[i])
                                /\ \A j \in 1..(i - 1) : ~IntFails(nums[j])], 0, 0, sel)
        ELSE SteppedRange(IntOf(nums[1]), IntOf(nums[2]), IntOf(nums[3]), total, sel)

\* The branch of start-end:step and start..end..step, m being the match.
SteppedBranch(part, total, sel) ==
    LET m == SteppedMatch(part)
    IN  IF m.step = <<>> THEN Raise(E_NEEDS_STEP, part, 0, 0, sel)
        ELSE SteppedRange(IntOf(m.start), IntOf(m.end), IntOf(m.step), total, sel)

\* Mutation of RangeIndices: selected.append(p), the page numbers kept 1-based.
RangeIndices_OneBased(start, end) == [k \in 1..(end - start + 1) |-> start + k - 1]

\* Mutation of RangeIndices: for p in range(start, end), the end excluded.
RangeIndices_EndExcluded(start, end) == [k \in 1..(end - start) |-> start + k - 2]

\* for p in range(start, end + 1): selected.append(p - 1)
RangeIndices(start, end) == [k \in 1..(end - start + 1) |-> start + k - 2]

\* Mutation of PlainRangeBranch: an end above the page count is cut down to it.
PlainRangeBranch_EndClamped(part, total, sel) ==
    LET d         == IndexOf(part, "-")
        start_str == SubSeq(part, 1, d - 1)
        end_str   == SubSeq(part, d + 1, Len(part))
        start     == IntOf(start_str)
        end       == IntOf(end_str)
    IN  IF ~IsDigitStr(start_str) \/ ~IsDigitStr(end_str)
        THEN Raise(E_RANGE, part, 0, 0, sel)
        ELSE IF IntFails(start_str) THEN Raise(E_INT, start_str, 0, 0, sel)
        ELSE IF IntFails(end_str) THEN Raise(E_INT, end_str, 0, 0, sel)
        ELSE IF start <= 0 \/ end <= 0 THEN Raise(E_POSITIVE, <<>>, 0, 0, sel)
        ELSE IF start > end THEN Raise(E_START_END, part, 0, 0, sel)
        ELSE IF end > total THEN Ok(sel \o RangeIndices(start, total))
        ELSE Ok(sel \o RangeIndices(start, end))

\* Mutation of PlainRangeBranch: the bound is checked on start instead of end.
PlainRangeBranch_StartBound(part, total, sel) ==
    LET d         == IndexOf(part, "-")
        start_str == SubSeq(part, 1, d - 1)
        end_str   == SubSeq(part, d + 1, Len(part))
        start     == IntOf(start_str)
        end       == IntOf(end_str)
    IN  IF ~IsDigitStr(start_str) \/ ~IsDigitStr(end_str)
        THEN Raise(E_RANGE, part, 0, 0, sel)
        ELSE IF IntFails(start_str) THEN Raise(E_INT, start_str, 0, 0, sel)
        ELSE IF IntFails(end_str) THEN Raise(E_INT, end_str, 0, 0, sel)
        ELSE IF start <= 0 \/ end <= 0 THEN Raise(E_POSITIVE, <<>>, 0, 0, sel)
        ELSE IF start > end THEN Raise(E_START_END, part, 0, 0, sel)
        ELSE IF start > total THEN Raise(E_BOUNDS, <<>>, start, total, sel)
        ELSE Ok(sel \o RangeIndices(start, end))

\* Mutation of PlainRangeBranch: the bound of end is checked before start > end.
PlainRangeBranch_BoundsFirst(part, total, sel) ==
    LET d         == IndexOf(part, "-")
        start_str == SubSeq(part, 1, d - 1)
        end_str   == SubSeq(part, d + 1, Len(part))
        start     == IntOf(start_str)
        end       == IntOf(end_str)
    IN  IF ~IsDigitStr(start_str) \/ ~IsDigitStr(end_str)
        THEN Raise(E_RANGE, part, 0, 0, sel)
        ELSE IF IntFails(start_str) THEN Raise(E_INT, start_str, 0, 0, sel)
        ELSE IF IntFails(end_str) THEN Raise(E_INT, end_str, 0, 0, sel)
        ELSE IF start <= 0 \/ end <= 0 THEN Raise(E_POSITIVE, <<>>, 0, 0, sel)
        ELSE IF end > total THEN Raise(E_BOUNDS, <<>>, end, total, sel)
        ELSE IF start > end THEN Raise(E_START_END, part, 0, 0, sel)
        ELSE Ok(sel \o RangeIndices(start, end))

\* The branch of a part that holds a dash: start_str, end_str = part.split('-', 1)
PlainRangeBranch(part, total, sel) ==
    LET d         == IndexOf(part, "-")
        start_str == SubSeq(part, 1, d - 1)
        end_str   == SubSeq(part, d + 1, Len(part))
        start     == IntOf(start_str)
        end       == IntOf(end_str)
    IN  IF ~IsDigitStr(start_str) \/ ~IsDigitStr(end_str)
        THEN Raise(E_RANGE, part, 0, 0, sel)
        ELSE IF IntFails(start_str) THEN Raise(E_INT, start_str, 0, 0, sel)
        ELSE IF IntFails(end_str) THEN Raise(E_INT, end_str, 0, 0, sel)
        ELSE IF start <= 0 \/ end <= 0 THEN Raise(E_POSITIVE, <<>>, 0, 0, sel)
        ELSE IF start > end THEN Raise(E_START_END, part, 0, 0, sel)
        ELSE IF end > total THEN Raise(E_BOUNDS, <<>>, end, total, sel)
        ELSE Ok(sel \o RangeIndices(start, end))

\* Mutation of SingleBranch: a page already selected is not selected again.
SingleBranch_Dedup(part, total, sel) ==
    LET p == IntOf(part)
    IN  IF ~IsDigitStr(part) THEN Raise(E_PAGE, part, 0, 0, sel)
        ELSE IF IntFails(part) THEN Raise(E_INT, part, 0, 0, sel)
        ELSE IF p <= 0 THEN Raise(E_POSITIVE, <<>>, 0, 0, sel)
        ELSE IF p > total THEN Raise(E_BOUNDS, <<>>, p, total, sel)
        ELSE IF \E k \in 1..Len(sel) : sel[k] = p - 1 THEN Ok(sel)
        ELSE Ok(Append(sel, p - 1))

\* The branch of a single page number.
SingleBranch(part, total, sel) ==
    LET p == IntOf(part)
    IN  IF ~IsDigitStr(part) THEN Raise(E_PAGE, part, 0, 0, sel)
        ELSE IF IntFails(part) THEN Raise(E_INT, part, 0, 0, sel)
        ELSE IF p <= 0 THEN Raise(E_POSITIVE, <<>>, 0, 0, sel)
        ELSE IF p > total THEN Raise(E_BOUNDS, <<>>, p, total, sel)
        ELSE Ok(Append(sel, p - 1))

\* The form of a part, in the order the code tries the forms.
PartForm(part) ==
    IF IsRangeFn(part) THEN "range_fn"
    ELSE IF SteppedMatch(part).matched THEN "stepped"
    ELSE IF Contains(part, "-") THEN "plain_range"
    ELSE "single"

\* One iteration of: for part in parts
ParsePart(part, total, sel) ==
    CASE PartForm(part) = "range_fn"    -> RangeFnBranch(part, total, sel)
      [] PartForm(part) = "stepped"     -> SteppedBranch(part, total, sel)
      [] PartForm(part) = "plain_range" -> PlainRangeBranch(part, total, sel)
      [] OTHER                          -> SingleBranch(part, total, sel)

\* The loop over parts[i..], sel being the list selected so far.
RECURSIVE ParseParts(_, _, _, _)
ParseParts(ps, i, total, sel) ==
    IF i > Len(ps) THEN Ok(sel)
    ELSE LET r == ParsePart(ps[i], total, sel)
         IN  IF r.ok THEN ParseParts(ps, i + 1, total, r.selected) ELSE r

\* parse_pages(pages_expr, total_pages): the list returned or the error raised.
parse_pages(expr, total) ==
    IF Len(expr) = 0 THEN Raise(E_EMPTY, <<>>, 0, 0, <<>>)
    ELSE IF Len(SplitParts(expr)) = 0 THEN Raise(E_NO_PAGES, <<>>, 0, 0, <<>>)
    ELSE ParseParts(SplitParts(expr), 1, total, <<>>)

(***************************************************************************)
(* Paths, the file system and documents.  A document is the sequence of    *)
(* its pages; page k of the source document is the number k.  The file     *)
(* system is a function from the paths of the existing files to their      *)
(* documents, with the set of the existing directories beside it.          *)
(***************************************************************************)
\* The index of the last occurrence of c in s, or 0.
LastIndexOf(s, c) ==
    IF Contains(s, c)
    THEN CHOOSE i \in 1..Len(s) : s[i] = c /\ \A j \in (i + 1)..Len(s) : s[j] # c
    ELSE 0

\* os.path.dirname(path): the path up to its last slash ("" for none).
DirName(path) ==
    IF LastIndexOf(path, "/") = 0 THEN <<>> ELSE SubSeq(path, 1, LastIndexOf(path, "/") - 1)

\* os.path.splitext(path): the extension starts at the last dot of the last
\* component, unless only dots precede it in that component.
SplitExtAt(path) ==
    LET sl  == LastIndexOf(path, "/")
        dot == LastIndexOf(path, ".")
    IN  IF dot > sl /\ \E j \in (sl + 1)..(dot - 1) : path[j] # "." THEN dot ELSE Len(path) + 1

SplitExt(path) ==
    [base |-> SubSeq(path, 1, SplitExtAt(path) - 1),
     ext  |-> SubSeq(path, SplitExtAt(path), Len(path))]

PDF_EXT == <<".", "p", "d", "f">>

SELECTED == <<".", "s", "e", "l", "e", "c", "t", "e", "d">>

\* os.path.exists(path)
PathExists(path, fsys, dirset) == path \in DOMAIN fsys \/ path \in dirset

\* The loop of build_default_output_path from counter on.
RECURSIVE NextFree(_, _, _, _, _)
NextFree(base, ext, counter, fsys, dirset) ==
    LET candidate == base \o SELECTED \o <<"-">> \o IntStr(counter) \o ext
    IN  IF ~PathExists(candidate, fsys, dirset) THEN candidate
        ELSE NextFree(base, ext, counter + 1, fsys, dirset)

\* Mutation of build_default_output_path: the counter starts at 2.
build_default_output_path_CounterFromTwo(input_path, fsys, dirset) ==
    LET base      == SplitExt(input_path).base
        ext       == IF SplitExt(input_path).ext = <<>> THEN PDF_EXT
                     ELSE SplitExt(input_path).ext
        candidate == base \o SELECTED \o ext
    IN  IF ~PathExists(candidate, fsys, dirset) THEN candidate
        ELSE NextFree(base, ext, 2, fsys, dirset)

build_default_output_path(input_path, fsys, dirset) ==
    LET base      == SplitExt(input_path).base
        ext       == IF SplitExt(input_path).ext = <<>> THEN PDF_EXT
                     ELSE SplitExt(input_path).ext
        candidate == base \o SELECTED \o ext
    IN  IF ~PathExists(candidate, fsys, dirset) THEN candidate
        ELSE NextFree(base, ext, 1, fsys, dirset)

\* open(path, 'wb') succeeds when the directory of the path exists and the
\* path is no directory.
CanOpenForWrite(path, dirset) == Len(path) > 0 /\ DirName(path) \in dirset /\ path \notin dirset

\* reader.pages[idx]: a negative index counts from the end.
PageIndexOk(pages, idx) == idx < Len(pages) /\ idx >= 0 - Len(pages)

\* Mutation of PageAt: reader.pages[idx - 1], the index taken as a page number.
PageAt_OneBased(pages, idx) == IF idx >= 1 THEN pages[idx] ELSE pages[Len(pages) + idx]

PageAt(pages, idx) == IF idx >= 0 THEN pages[idx + 1] ELSE pages[Len(pages) + idx + 1]

\* ','.join(strs)
RECURSIVE JoinComma(_)
JoinComma(strs) ==
    IF Len(strs) = 0 THEN <<>>
    ELSE IF Len(strs) = 1 THEN strs[1]
    ELSE strs[1] \o <<",">> \o JoinComma(Tail(strs))

\* Mutation of OneBasedLine: the indices are printed as they are, 0-based.
OneBasedLine_ZeroBased(indices) == JoinComma([k \in 1..Len(indices) |-> IntStr(indices[k])])

\* ','.join([str(i + 1) for i in page_indices])
OneBasedLine(indices) == JoinComma([k \in 1..Len(indices) |-> IntStr(indices[k] + 1)])

WROTE == <<"W", "r", "o", "t", "e", ":", " ">>

E_NOT_FOUND == "No such file or directory: {part}"
E_NO_VALID  == "No valid pages selected"
E_INDEX     == "sequence index out of range"

(***************************************************************************)
(* The inputs of a run.                                                    *)
(***************************************************************************)
\* The page numbers and steps written in the generated tokens.
Nums == (0 - 1)..(MaxPages + 1)

Steps == (0 - MaxStep)..MaxStep

ColonForm(a, b, s) == IntStr(a) \o <<"-">> \o IntStr(b) \o <<":">> \o IntStr(s)

DoubleDotForm(a, b, s) == IntStr(a) \o <<".", ".">> \o IntStr(b) \o <<".", ".">> \o IntStr(s)

RangeFnForm(a, b, s) ==
    RANGE_OPEN \o IntStr(a) \o <<",">> \o IntStr(b) \o <<",">> \o IntStr(s) \o <<")">>

\* The colon form written with a space on each side of the dash and the colon.
SpacedColonForm(a, b, s) ==
    IntStr(a) \o <<" ", "-", " ">> \o IntStr(b) \o <<" ", ":", " ">> \o IntStr(s)

PlainRangeForm(a, b) == IntStr(a) \o <<"-">> \o IntStr(b)

SingleForm(n) == IntStr(n)

\* Expressions of one token of a numeric form, with every number and step,
\* and the colon form written with spaces, with every number and the steps -1, 1.
FormExprs ==
    {ColonForm(a, b, s) : a \in Nums, b \in Nums, s \in Steps}
    \cup {DoubleDotForm(a, b, s) : a \in Nums, b \in Nums, s \in Steps}
    \cup {RangeFnForm(a, b, s) : a \in Nums, b \in Nums, s \in Steps}
    \cup {PlainRangeForm(a, b) : a \in Nums, b \in Nums}
    \cup {SingleForm(n) : n \in Nums}
    \cup {SpacedColonForm(a, b, s) : a \in Nums, b \in Nums, s \in {0 - 1, 1}}

\* Expressions that are empty, hold only separators, or hold a token of no form.
OddExprs ==
    { <<>>, <<",">>, <<" ">>, <<",", " ", ",">>,
      <<"x">>, <<"1", "x">>, <<"+", "1">>, <<"1", "-">>, <<"1", "-", "2", "-", "3">>,
      <<"1", "-", "2", ":">>, <<"1", ".", ".", "2">>, <<"1", "-", "2", ":", "+", "1">>,
      <<"0", "1", "-", "0", "2">>,
      <<SUPERSCRIPT_TWO>>, <<"1", "-", SUPERSCRIPT_TWO>>, <<SUPERSCRIPT_TWO, "-", "1">>,
      <<"1", "-", "2", ":", SUPERSCRIPT_TWO>>, <<"-">>, <<"-", "-", "1">>,
      <<"r", "a", "n", "g", "e", "(", "1", ")">>, <<"R", "A", "N", "G", "E", "(", ")">>,
      <<"r", "a", "n", "g", "e", "(", "1", "-", "2", ":", "1", ")">>,
      <<"1", " ", "-", " ", "2", " ", ":", " ", "1">>,
      <<",", "1">>, <<"1", ",">>, <<"1", ",", ",", "2">>, <<" ", "2", " ", ",", "\t", "1", "\n">> }

\* The tokens of the expressions of several tokens.
SmallTokens ==
    { <<"1">>, <<"2">>, <<"1", "-", "2">>, <<"2", "-", "1", ":", "-", "1">>,
      <<"1", ".", ".", "3", ".", ".", "2">>, <<"0">>, <<"x">>, <<"1", "-", "2", ":", "0">> }

RECURSIVE JoinTokens(_, _)
JoinTokens(toks, sep) ==
    IF Len(toks) = 1 THEN toks[1] ELSE toks[1] \o sep \o JoinTokens(Tail(toks), sep)

TokenSeqs == UNION {[1..n -> SmallTokens] : n \in 2..MaxTokens}

MultiExprs ==
    {JoinTokens(ts, <<",">>) : ts \in TokenSeqs} \cup {JoinTokens(ts, <<" ">>) : ts \in TokenSeqs}

Exprs == FormExprs \cup OddExprs \cup MultiExprs

\* The expressions run in every environment.
EnvExprs == { <<"1">>, <<"2", ",", "1", ",", "2">>, <<"0">>, <<>> }

D_PDF == <<"d", ".", "p", "d", "f">>

O_PDF == <<"o", ".", "p", "d", "f">>

X_O_PDF == <<"x", "/", "o", ".", "p", "d", "f">>

InputPaths == {D_PDF, <<"d">>}

\* output_pdf is None or a path.
NoOutput == [none |-> TRUE, path |-> <<>>]

OutputAt(path) == [none |-> FALSE, path |-> path]

OutputArgs == {NoOutput, OutputAt(O_PDF), OutputAt(X_O_PDF)}

\* The source document of n pages.
SourceDoc(n) == [k \in 1..n |-> k]

\* The document of a file that exists before the run.
OtherDoc == <<0>>

\* At most MaxExisting default output names exist before the run.
MaxExisting == 2

\* The first k default output names of input path inp.
DefaultNames(inp, k) ==
    LET base == SplitExt(inp).base
        ext  == IF SplitExt(inp).ext = <<>> THEN PDF_EXT ELSE SplitExt(inp).ext
    IN  {base \o SELECTED \o ext : j \in {0} \cap 0..(k - 1)}
        \cup {base \o SELECTED \o <<"-">> \o IntStr(j) \o ext : j \in 1..(k - 1)}

\* The file system before a run: the source document of n pages at inp when
\* it exists, the first k default output names, and the explicit output o.pdf
\* when o_exists.
InitialFs(inp, inp_exists, n, k, o_exists) ==
    LET paths == (IF inp_exists THEN {inp} ELSE {})
                 \cup DefaultNames(inp, k) \cup (IF o_exists THEN {O_PDF} ELSE {})
    IN  [q \in paths |-> IF q = inp THEN SourceDoc(n) ELSE OtherDoc]

\* The runs: every expression in the plain environment, and the expressions
\* of EnvExprs in every environment.
Runs ==
    [expr : Exprs, n : 0..MaxPages, print_only : BOOLEAN, inp : {D_PDF},
     inp_exists : {TRUE}, out : {NoOutput}, k : {0}, o_exists : {FALSE}]
    \cup
    [expr : EnvExprs, n : {2}, print_only : BOOLEAN, inp : InputPaths,
     inp_exists : BOOLEAN, out : OutputArgs, k : 0..MaxExisting, o_exists : BOOLEAN]

(***************************************************************************)
(* The state of a run of main().                                           *)
(***************************************************************************)
VARIABLES
    pc,            \* the position in main / extract_pages
    pp_pc,         \* the position in parse_pages: idle, entry, for, returned, raised
    input_pdf,     \* args.input
    pages_expr,    \* args.pages
    output_pdf,    \* args.output, then the resolved output path
    print_only,    \* args.print_only
    fs,            \* the existing files and their documents
    dirs,          \* the existing directories
    reader,        \* the pages of the opened source document
    total_pages,   \* len(reader.pages)
    parts,         \* parse_pages: the tokens
    part_i,        \* parse_pages: the index of the next part of the loop
    selected,      \* parse_pages: the list selected so far
    page_indices,  \* the list parse_pages returned
    writer,        \* the pages added to the PdfWriter
    add_i,         \* extract_pages: the index of the next page index to add
    stdout,        \* the lines printed
    error          \* the exception that ended the run

\* The state of EnhancedAudioLooperApp (audioplayer/player_enhanced.py): the
\* fields and widgets that play_loop, stop_audio and the loop threads use.
VARIABLES
    is_playing,    \* self.is_playing
    btn_play,      \* the state of the play button: "normal" or "disabled"
    current_audio, \* self.current_audio: "None" or "loaded"
    ui_pc,         \* the position of the Tk main thread: "idle", or inside play_loop
    loop_threads,  \* the position of each play_loop_thread
    play_thread,   \* self.play_thread: 0 for None, or the thread last started
    stopped,       \* history: the threads started before a stop_audio has run
    replayed       \* history: the threads that called play() after such a stop_audio

looperVars == <<is_playing, btn_play, current_audio, ui_pc, loop_threads, play_thread,
                stopped, replayed>>

\* At most MaxLoopThreads loop threads are started.
MaxLoopThreads == 3

LoopThreadIds == 1..MaxLoopThreads

\* EnhancedAudioLooperApp.__init__: nothing loaded, nothing playing.
LooperConstructed ==
    /\ is_playing = FALSE
    /\ btn_play = "normal"
    /\ current_audio = "None"
    /\ ui_pc = "idle"
    /\ loop_threads = [t \in LoopThreadIds |-> "unstarted"]
    /\ play_thread = 0
    /\ stopped = {}
    /\ replayed = {}

argVars == <<input_pdf, pages_expr, print_only>>

parseVars == <<pp_pc, parts, part_i, selected>>

vars == <<pc, pp_pc, input_pdf, pages_expr, output_pdf, print_only, fs, dirs, reader,
          total_pages, parts, part_i, selected, page_indices, writer, add_i, stdout, error,
          looperVars>>

Init ==
    \E r \in Runs :
        /\ pc = "main"
        /\ pp_pc = "idle"
        /\ input_pdf = r.inp
        /\ pages_expr = r.expr
        /\ output_pdf = r.out
        /\ print_only = r.print_only
        /\ fs = InitialFs(r.inp, r.inp_exists, r.n, r.k, r.o_exists)
        /\ dirs = {<<>>}
        /\ reader = <<>>
        /\ total_pages = 0
        /\ parts = <<>>
        /\ part_i = 1
        /\ selected = <<>>
        /\ page_indices = <<>>
        /\ writer = <<>>
        /\ add_i = 1
        /\ stdout = <<>>
        /\ error = NoError
        /\ LooperConstructed

\* An exception nothing catches ends the run.
Fail(err) == pc' = "failed" /\ error' = err

(***************************************************************************)
(* main and extract_pages up to the call of parse_pages.                   *)
(***************************************************************************)
\* reader = PdfReader(path); total_pages = len(reader.pages)
OpenReader ==
    IF input_pdf \in DOMAIN fs
    THEN /\ reader' = fs[input_pdf]
         /\ total_pages' = Len(fs[input_pdf])
         /\ pc' = "parse_pages"
         /\ pp_pc' = "entry"
         /\ error' = error
    ELSE /\ Fail([msg |-> E_NOT_FOUND, part |-> input_pdf, a |-> 0, b |-> 0])
         /\ UNCHANGED <<reader, total_pages, pp_pc>>

\* main with --print-only: the reader is opened in main.
MainPrintOnly ==
    /\ pc = "main"
    /\ print_only
    /\ OpenReader
    /\ UNCHANGED looperVars
    /\ UNCHANGED <<argVars, output_pdf, fs, dirs, parts, part_i, selected, page_indices,
                   writer, add_i, stdout>>

\* main without --print-only: extract_pages opens the reader.
MainExtract ==
    /\ pc = "main"
    /\ ~print_only
    /\ OpenReader
    /\ UNCHANGED looperVars
    /\ UNCHANGED <<argVars, output_pdf, fs, dirs, parts, part_i, selected, page_indices,
                   writer, add_i, stdout>>

(***************************************************************************)
(* parse_pages, one step for the tokenizer and one for each part.          *)
(***************************************************************************)
Tokenize ==
    /\ pc = "parse_pages"
    /\ pp_pc = "entry"
    /\ IF Len(pages_expr) = 0
       THEN /\ Fail(Raise(E_EMPTY, <<>>, 0, 0, <<>>).err)
            /\ pp_pc' = "raised"
            /\ parts' = parts
       ELSE /\ parts' = SplitParts(pages_expr)
            /\ IF Len(SplitParts(pages_expr)) = 0
               THEN /\ Fail(Raise(E_NO_PAGES, <<>>, 0, 0, <<>>).err)
                    /\ pp_pc' = "raised"
               ELSE /\ pp_pc' = "for"
                    /\ UNCHANGED <<pc, error>>
    /\ selected' = <<>>
    /\ part_i' = 1
    /\ UNCHANGED looperVars
    /\ UNCHANGED <<argVars, output_pdf, fs, dirs, reader, total_pages, page_indices,
                   writer, add_i, stdout>>

\* Mutation of PartDone: at a part that raises, the list collected so far is
\* returned.
PartDone_PartialReturned(r) ==
    /\ selected' = r.selected
    /\ IF r.ok
       THEN /\ part_i' = part_i + 1
            /\ UNCHANGED <<pc, pp_pc, page_indices>>
       ELSE /\ pp_pc' = "returned"
            /\ page_indices' = r.selected
            /\ pc' = IF print_only THEN "print_only" ELSE "extract"
            /\ part_i' = part_i
    /\ UNCHANGED looperVars
    /\ UNCHANGED <<argVars, output_pdf, fs, dirs, reader, total_pages, parts,
                   writer, add_i, stdout, error>>

\* Mutation of PartDone: a part that raises is skipped and the loop goes on.
PartDone_InvalidSkipped(r) ==
    /\ selected' = r.selected
    /\ part_i' = part_i + 1
    /\ UNCHANGED <<pc, pp_pc, error>>
    /\ UNCHANGED looperVars
    /\ UNCHANGED <<argVars, output_pdf, fs, dirs, reader, total_pages, parts, page_indices,
                   writer, add_i, stdout>>

\* The effect of one part whose branch gave outcome r.
PartDone(r) ==
    /\ selected' = r.selected
    /\ IF r.ok
       THEN /\ part_i' = part_i + 1
            /\ UNCHANGED <<pc, pp_pc, error>>
       ELSE /\ Fail(r.err)
            /\ pp_pc' = "raised"
            /\ part_i' = part_i
    /\ UNCHANGED looperVars
    /\ UNCHANGED <<argVars, output_pdf, fs, dirs, reader, total_pages, parts, page_indices,
                   writer, add_i, stdout>>

AtPart(form) ==
    /\ pc = "parse_pages"
    /\ pp_pc = "for"
    /\ part_i <= Len(parts)
    /\ PartForm(parts[part_i]) = form

ForRangeFn ==
    /\ AtPart("range_fn")
    /\ PartDone(RangeFnBranch(parts[part_i], total_pages, selected))

ForStepped ==
    /\ AtPart("stepped")
    /\ PartDone(SteppedBranch(parts[part_i], total_pages, selected))

ForPlainRange ==
    /\ AtPart("plain_range")
    /\ PartDone(PlainRangeBranch(parts[part_i], total_pages, selected))

ForSingle ==
    /\ AtPart("single")
    /\ PartDone(SingleBranch(parts[part_i], total_pages, selected))

\* Mutation of ParseReturn: the run goes on to extract_pages with --print-only too.
ParseReturn_ExtractAlways ==
    /\ pc = "parse_pages"
    /\ pp_pc = "for"
    /\ part_i > Len(parts)
    /\ pp_pc' = "returned"
    /\ page_indices' = selected
    /\ pc' = "extract"
    /\ UNCHANGED looperVars
    /\ UNCHANGED <<argVars, output_pdf, fs, dirs, reader, total_pages, parts, part_i,
                   selected, writer, add_i, stdout, error>>

\* return selected
ParseReturn ==
    /\ pc = "parse_pages"
    /\ pp_pc = "for"
    /\ part_i > Len(parts)
    /\ pp_pc' = "returned"
    /\ page_indices' = selected
    /\ pc' = IF print_only THEN "print_only" ELSE "extract"
    /\ UNCHANGED looperVars
    /\ UNCHANGED <<argVars, output_pdf, fs, dirs, reader, total_pages, parts, part_i,
                   selected, writer, add_i, stdout, error>>

(***************************************************************************)
(* main after parse_pages with --print-only, and the rest of               *)
(* extract_pages.                                                          *)
(***************************************************************************)
\* print(','.join(one_based)); return
PrintOnlyPrint ==
    /\ pc = "print_only"
    /\ stdout' = Append(stdout, OneBasedLine(page_indices))
    /\ pc' = "done"
    /\ UNCHANGED looperVars
    /\ UNCHANGED <<argVars, parseVars, output_pdf, fs, dirs, reader, total_pages,
                   page_indices, writer, add_i, error>>

\* if not page_indices: raise; print(','.join(one_based)); writer = PdfWriter()
ExtractPrint ==
    /\ pc = "extract"
    /\ IF Len(page_indices) = 0
       THEN /\ Fail([msg |-> E_NO_VALID, part |-> <<>>, a |-> 0, b |-> 0])
            /\ UNCHANGED <<stdout, writer, add_i>>
       ELSE /\ stdout' = Append(stdout, OneBasedLine(page_indices))
            /\ writer' = <<>>
            /\ add_i' = 1
            /\ pc' = "add_page"
            /\ error' = error
    /\ UNCHANGED looperVars
    /\ UNCHANGED <<argVars, parseVars, output_pdf, fs, dirs, reader, total_pages,
                   page_indices>>

\* for idx in page_indices: writer.add_page(reader.pages[idx])
AddPage ==
    /\ pc = "add_page"
    /\ add_i <= Len(page_indices)
    /\ IF PageIndexOk(reader, page_indices[add_i])
       THEN /\ writer' = Append(writer, PageAt(reader, page_indices[add_i]))
            /\ add_i' = add_i + 1
            /\ UNCHANGED <<pc, error>>
       ELSE /\ Fail([msg |-> E_INDEX, part |-> <<>>, a |-> page_indices[add_i], b |-> 0])
            /\ UNCHANGED <<writer, add_i>>
    /\ UNCHANGED looperVars
    /\ UNCHANGED <<argVars, parseVars, output_pdf, fs, dirs, reader, total_pages,
                   page_indices, stdout>>

\* Mutation of ResolveOutput: a supplied path that exists gets a collision suffix.
ResolveOutput_SuffixWhenExists ==
    /\ pc = "add_page"
    /\ add_i > Len(page_indices)
    /\ output_pdf' = IF output_pdf.none
                     THEN OutputAt(build_default_output_path(input_pdf, fs, dirs))
                     ELSE IF PathExists(output_pdf.path, fs, dirs)
                     THEN OutputAt(NextFree(SplitExt(output_pdf.path).base,
                                            SplitExt(output_pdf.path).ext, 1, fs, dirs))
                     ELSE output_pdf
    /\ pc' = "write"
    /\ UNCHANGED looperVars
    /\ UNCHANGED <<argVars, parseVars, fs, dirs, reader, total_pages, page_indices,
                   writer, add_i, stdout, error>>

\* if output_pdf is None: output_pdf = build_default_output_path(input_pdf)
ResolveOutput ==
    /\ pc = "add_page"
    /\ add_i > Len(page_indices)
    /\ output_pdf' = IF output_pdf.none
                     THEN OutputAt(build_default_output_path(input_pdf, fs, dirs))
                     ELSE output_pdf
    /\ pc' = "write"
    /\ UNCHANGED looperVars
    /\ UNCHANGED <<argVars, parseVars, fs, dirs, reader, total_pages, page_indices,
                   writer, add_i, stdout, error>>

\* with open(output_pdf, 'wb') as f: writer.write(f)
WriteOutput ==
    /\ pc = "write"
    /\ IF CanOpenForWrite(output_pdf.path, dirs)
       THEN /\ fs' = [q \in DOMAIN fs \cup {output_pdf.path} |->
                        IF q = output_pdf.path THEN writer ELSE fs[q]]
            /\ pc' = "wrote"
            /\ error' = error
       ELSE /\ Fail([msg |-> E_NOT_FOUND, part |-> output_pdf.path, a |-> 0, b |-> 0])
            /\ fs' = fs
    /\ UNCHANGED looperVars
    /\ UNCHANGED <<argVars, parseVars, output_pdf, dirs, reader, total_pages, page_indices,
                   writer, add_i, stdout>>

\* return output_pdf; print(f"Wrote: {output_path}")
PrintWrote ==
    /\ pc = "wrote"
    /\ stdout' = Append(stdout, WROTE \o output_pdf.path)
    /\ pc' = "done"
    /\ UNCHANGED looperVars
    /\ UNCHANGED <<argVars, parseVars, output_pdf, fs, dirs, reader, total_pages,
                   page_indices, writer, add_i, error>>

Next ==
    \/ MainPrintOnly
    \/ MainExtract
    \/ Tokenize
    \/ ForRangeFn
    \/ ForStepped
    \/ ForPlainRange
    \/ ForSingle
    \/ ParseReturn
    \/ PrintOnlyPrint
    \/ ExtractPrint
    \/ AddPage
    \/ ResolveOutput
    \/ WriteOutput
    \/ PrintWrote

Spec == Init /\ [][Next]_vars

(***************************************************************************)
(* EnhancedAudioLooperApp: play_loop, stop_audio and the loop threads.     *)
(* The handlers run on the Tk main thread, one at a time; every loop       *)
(* thread runs play_loop_thread and reads the one flag self.is_playing.    *)
(***************************************************************************)
historyVars == <<stopped, replayed>>

\* The least thread not started yet: the thread the next Thread(...) makes.
NextLoopThread == CHOOSE t \in LoopThreadIds :
    /\ loop_threads[t] = "unstarted"
    /\ \A u \in LoopThreadIds : loop_threads[u] = "unstarted" => t <= u

\* The variables of select_pages, which the looper leaves alone.
pdfVars == <<pc, pp_pc, input_pdf, pages_expr, output_pdf, print_only, fs, dirs, reader,
             total_pages, parts, part_i, selected, page_indices, writer, add_i, stdout,
             error>>

\* on_file_select: an audio file is loaded into self.current_audio.
on_file_select ==
    /\ ui_pc = "idle"
    /\ current_audio' = "loaded"
    /\ UNCHANGED <<is_playing, btn_play, ui_pc, loop_threads, play_thread, historyVars>>
    /\ UNCHANGED pdfVars

\* play_loop, from the click on the enabled play button to the call of
\* create_enhanced_audio_segment: without a loaded file or with invalid times
\* it shows an error and returns, otherwise it sets the flag and disables
\* the button.
play_loop ==
    /\ ui_pc = "idle"
    /\ btn_play = "normal"
    /\ \E t \in LoopThreadIds : loop_threads[t] = "unstarted"
    /\ \E times_valid \in BOOLEAN :
        IF current_audio = "None" \/ ~times_valid
        THEN UNCHANGED <<is_playing, btn_play, ui_pc>>
        ELSE /\ is_playing' = TRUE
             /\ btn_play' = "disabled"
             /\ ui_pc' = "create_segment"
    /\ UNCHANGED <<current_audio, loop_threads, play_thread, historyVars>>
    /\ UNCHANGED pdfVars

\* play_loop, from the result of create_enhanced_audio_segment to its end:
\* without a segment it clears the flag and enables the button again,
\* otherwise it starts a new play_loop_thread.
play_loop_start ==
    /\ ui_pc = "create_segment"
    /\ \E enhanced_segment \in {"None", "segment"} :
        IF enhanced_segment = "None"
        THEN /\ is_playing' = FALSE
             /\ btn_play' = "normal"
             /\ UNCHANGED <<loop_threads, play_thread>>
        ELSE /\ loop_threads' = [loop_threads EXCEPT ![NextLoopThread] = "while"]
             /\ play_thread' = NextLoopThread
             /\ UNCHANGED <<is_playing, btn_play>>
    /\ ui_pc' = "idle"
    /\ UNCHANGED <<current_audio, historyVars>>
    /\ UNCHANGED pdfVars

\* stop_audio: clears the flag, restarts the pygame mixer (which no loop
\* thread plays through) and enables the play button.
stop_audio ==
    /\ ui_pc = "idle"
    /\ is_playing' = FALSE
    /\ btn_play' = "normal"
    /\ stopped' = stopped \cup {t \in LoopThreadIds : loop_threads[t] # "unstarted"}
    /\ UNCHANGED <<current_audio, ui_pc, loop_threads, play_thread, replayed>>
    /\ UNCHANGED pdfVars

\* play_loop_thread at "while self.is_playing": it calls play(), or leaves.
LoopTest(t) ==
    /\ loop_threads[t] = "while"
    /\ loop_threads' = [loop_threads EXCEPT ![t] = IF is_playing THEN "play" ELSE "exited"]
    /\ replayed' = IF is_playing /\ t \in stopped THEN replayed \cup {t} ELSE replayed
    /\ UNCHANGED <<is_playing, btn_play, current_audio, ui_pc, play_thread, stopped>>
    /\ UNCHANGED pdfVars

\* The blocking play(enhanced_segment) returns when the segment has ended.
PlayReturns(t) ==
    /\ loop_threads[t] = "play"
    /\ loop_threads' = [loop_threads EXCEPT ![t] = "check"]
    /\ UNCHANGED <<is_playing, btn_play, current_audio, ui_pc, play_thread, historyVars>>
    /\ UNCHANGED pdfVars

\* "if not self.is_playing: break" after play().
AfterPlay(t) ==
    /\ loop_threads[t] = "check"
    /\ loop_threads' = [loop_threads EXCEPT ![t] = IF is_playing THEN "progress" ELSE "exited"]
    /\ UNCHANGED <<is_playing, btn_play, current_audio, ui_pc, play_thread, historyVars>>
    /\ UNCHANGED pdfVars

\* The progress loop ends, by its range or by its break, and the thread
\* goes back to the test of the while loop.
ProgressDone(t) ==
    /\ loop_threads[t] = "progress"
    /\ loop_threads' = [loop_threads EXCEPT ![t] = "while"]
    /\ UNCHANGED <<is_playing, btn_play, current_audio, ui_pc, play_thread, historyVars>>
    /\ UNCHANGED pdfVars

\* An exception in the body of the loop ends the thread.
LoopRaises(t) ==
    /\ loop_threads[t] \in {"play", "progress"}
    /\ loop_threads' = [loop_threads EXCEPT ![t] = "exited"]
    /\ UNCHANGED <<is_playing, btn_play, current_audio, ui_pc, play_thread, historyVars>>
    /\ UNCHANGED pdfVars

\* The looper after construction, in a process that never runs select_pages.
LooperInit ==
    /\ LooperConstructed
    /\ pc = "done"
    /\ pp_pc = "idle"
    /\ input_pdf = <<>>
    /\ pages_expr = <<>>
    /\ output_pdf = NoOutput
    /\ print_only = FALSE
    /\ fs = <<>>
    /\ dirs = {<<>>}
    /\ reader = <<>>
    /\ total_pages = 0
    /\ parts = <<>>
    /\ part_i = 1
    /\ selected = <<>>
    /\ page_indices = <<>>
    /\ writer = <<>>
    /\ add_i = 1
    /\ stdout = <<>>
    /\ error = NoError

LooperNext ==
    \/ on_file_select
    \/ play_loop
    \/ play_loop_start
    \/ stop_audio
    \/ \E t \in LoopThreadIds : LoopTest(t)
    \/ \E t \in LoopThreadIds : PlayReturns(t)
    \/ \E t \in LoopThreadIds : AfterPlay(t)
    \/ \E t \in LoopThreadIds : ProgressDone(t)
    \/ \E t \in LoopThreadIds : LoopRaises(t)

LooperSpec == LooperInit /\ [][LooperNext]_vars

(***************************************************************************)
(* Vocabulary of the properties.                                           *)
(***************************************************************************)
Sign(x) == IF x > 0 THEN 1 ELSE IF x < 0 THEN 0 - 1 ELSE 0

\* The page numbers a stepped range from a to b by s denotes: a, a+s, a+2s, ...
\* up to and including b, for a step that moves from a toward b.
Visited(a, b, s) ==
    IF a = b THEN {a}
    ELSE IF s > 0 /\ a < b THEN {v \in a..b : (v - a) % s = 0}
    ELSE IF s < 0 /\ a > b THEN {v \in b..a : (a - v) % (0 - s) = 0}
    ELSE {}

\* The generated stepped tokens of the two pattern forms, with their numbers.
SteppedToks ==
    {[tok |-> ColonForm(a, b, s), a |-> a, b |-> b, s |-> s] :
        a \in Nums, b \in Nums, s \in Steps}
    \cup {[tok |-> DoubleDotForm(a, b, s), a |-> a, b |-> b, s |-> s] :
        a \in Nums, b \in Nums, s \in Steps}

\* The generated function-form expressions, with their numbers.
RangeFnToks ==
    {[tok |-> RangeFnForm(a, b, s), a |-> a, b |-> b, s |-> s] :
        a \in Nums, b \in Nums, s \in Steps}

\* The generated plain ranges and single numbers of unsigned numbers.
PlainToks ==
    {[tok |-> PlainRangeForm(a, b), a |-> a, b |-> b] :
        a \in 0..(MaxPages + 1), b \in 0..(MaxPages + 1)}

SingleToks == {[tok |-> SingleForm(n), a |-> n] : n \in 0..(MaxPages + 1)}

\* parse_pages has returned / has raised / has done either.
ParseReturned == pp_pc = "returned"

ParseRaised == pp_pc = "raised"

ParseFinished == ParseReturned \/ ParseRaised

\* The loop has accepted part i: its indices are in the list.
AcceptedAt(i) == i \in 1..Len(parts) /\ pp_pc \in {"for", "returned", "raised"} /\ i < part_i

\* The loop has raised at part i.
RaisedAt(i) == i \in 1..Len(parts) /\ ParseRaised /\ i = part_i

\* The loop has raised at part i with message m.
RaisedWith(i, m) == RaisedAt(i) /\ error.msg = m

\* The loop has been through part i.
ProcessedAt(i) == AcceptedAt(i) \/ RaisedAt(i)

\* The outcome of the run's call of parse_pages, and of an evaluation r of it:
\* the list returned, or the message of the error raised.
RunOutcome ==
    [ok |-> ParseReturned,
     list |-> IF ParseReturned THEN page_indices ELSE <<>>,
     msg |-> IF ParseRaised THEN error.msg ELSE ""]

OutcomeOf(r) ==
    [ok |-> r.ok, list |-> IF r.ok THEN r.selected ELSE <<>>, msg |-> r.err.msg]

(***************************************************************************)
(* C1.  Every index of a list that parse_pages returns is a page index of  *)
(* the document: 0 <= idx < total_pages, for every expression and every    *)
(* page count.                                                             *)
(***************************************************************************)
C1_IndicesInBounds ==
    ParseReturned =>
        \A k \in 1..Len(page_indices) : 0 <= page_indices[k] /\ page_indices[k] < total_pages

\* A descending stepped range that starts at the last page has been returned.
C1_Witness ==
    /\ ParseReturned
    /\ Len(page_indices) >= 2
    /\ page_indices[1] = total_pages - 1
    /\ page_indices[2] < page_indices[1]

(***************************************************************************)
(* C2.  When every token of the expression is valid on its own,            *)
(* parse_pages returns the concatenation of the expansions of the tokens   *)
(* in token order, neither sorted nor deduplicated.                        *)
(***************************************************************************)
RECURSIVE ConcatExpansions(_, _)
ConcatExpansions(toks, total) ==
    IF Len(toks) = 0 THEN <<>>
    ELSE parse_pages(Head(toks), total).selected \o ConcatExpansions(Tail(toks), total)

C2_Concatenation ==
    (/\ ParseFinished
     /\ Len(parts) >= 1
     /\ \A i \in 1..Len(parts) : parse_pages(parts[i], total_pages).ok)
        => /\ ParseReturned
           /\ page_indices = ConcatExpansions(parts, total_pages)

\* Two tokens have been expanded to a list that is not sorted and repeats an index.
C2_Witness ==
    /\ ParseReturned
    /\ Len(parts) = 2
    /\ \E i \in 1..Len(page_indices) : \E j \in (i + 1)..Len(page_indices) :
           page_indices[i] > page_indices[j]
    /\ \E i \in 1..Len(page_indices) : \E j \in (i + 1)..Len(page_indices) :
           page_indices[i] = page_indices[j]

(***************************************************************************)
(* C3.  extract_pages: the pages added to the output are, position by      *)
(* position, the source pages at the indices of the selection list; the    *)
(* document written has exactly as many pages as the list has indices.     *)
(***************************************************************************)
C3_OutputFollowsSelection ==
    /\ pc = "add_page" =>
           /\ Len(writer) = add_i - 1
           /\ \A n \in 1..Len(writer) : writer[n] = reader[page_indices[n] + 1]
    /\ pc \in {"write", "wrote"} =>
           /\ Len(writer) = Len(page_indices)
           /\ \A n \in 1..Len(writer) : writer[n] = reader[page_indices[n] + 1]
    /\ (pc \in {"wrote", "done"} /\ ~print_only) =>
           /\ output_pdf.path \in DOMAIN fs
           /\ Len(fs[output_pdf.path]) = Len(page_indices)
           /\ \A n \in 1..Len(page_indices) :
                  fs[output_pdf.path][n] = SourceDoc(total_pages)[page_indices[n] + 1]

\* A document has been written from a list that repeats an index and is not sorted.
C3_Witness ==
    /\ pc = "wrote"
    /\ \E i \in 1..Len(page_indices) : \E j \in (i + 1)..Len(page_indices) :
           page_indices[i] = page_indices[j]
    /\ \E i \in 1..Len(page_indices) : \E j \in (i + 1)..Len(page_indices) :
           page_indices[i] > page_indices[j]
    /\ fs[output_pdf.path] = writer

(***************************************************************************)
(* C4.  The three surface syntaxes a-b:s, a..b..s and range(a,b,s), each   *)
(* given as the expression, have the same outcome: the same list, or a     *)
(* failure of the same kind.                                               *)
(***************************************************************************)
C4_FormsEquivalent ==
    /\ \A t \in RangeFnToks :
           (ParseFinished /\ pages_expr = t.tok) =>
               /\ RunOutcome = OutcomeOf(parse_pages(ColonForm(t.a, t.b, t.s), total_pages))
               /\ RunOutcome
                      = OutcomeOf(parse_pages(DoubleDotForm(t.a, t.b, t.s), total_pages))
    /\ \A t \in SteppedToks :
           (ParseFinished /\ pages_expr = t.tok) =>
               /\ RunOutcome = OutcomeOf(parse_pages(ColonForm(t.a, t.b, t.s), total_pages))
               /\ RunOutcome
                      = OutcomeOf(parse_pages(DoubleDotForm(t.a, t.b, t.s), total_pages))

(***************************************************************************)
(* C5.  An expression that is a stepped token with step 0, in any of the   *)
(* three forms, fails with the zero-step error.                            *)
(***************************************************************************)
C5_ZeroStepError ==
    \A t \in SteppedToks \cup RangeFnToks :
        (ParseFinished /\ pages_expr = t.tok /\ t.s = 0) =>
            (ParseRaised /\ error.msg = E_STEP_ZERO)

(***************************************************************************)
(* C6, as stated.  A token of a numeric form that states a page number     *)
(* <= 0 as its single value, its start or its end, and has no other        *)
(* fault (its step is not 0 and moves from start toward end, no number     *)
(* exceeds the page count), fails with the must-be-positive error, also    *)
(* when the iteration steps over the non-positive end.                     *)
(***************************************************************************)
C6_NonPositiveStatedRejected ==
    ParseFinished =>
        /\ \A t \in SingleToks :
               (pages_expr = t.tok /\ t.a <= 0) => (ParseRaised /\ error.msg = E_POSITIVE)
        /\ \A t \in PlainToks :
               (pages_expr = t.tok /\ (t.a <= 0 \/ t.b <= 0))
                   => (ParseRaised /\ error.msg = E_POSITIVE)
        /\ \A t \in SteppedToks :
               (/\ pages_expr = t.tok
                /\ t.s # 0
                /\ (t.a = t.b \/ Sign(t.b - t.a) = Sign(t.s))
                /\ t.a <= total_pages /\ t.b <= total_pages
                /\ (t.a <= 0 \/ t.b <= 0))
                   => (ParseRaised /\ error.msg = E_POSITIVE)

(***************************************************************************)
(* C6, amended.  A part that states 0 as its single value or as the start  *)
(* or end of a plain range, or a stepped part (step not 0) whose iteration *)
(* visits a value <= 0 (from a start within the page count when it         *)
(* descends), raises the must-be-positive error at that part.  A stepped   *)
(* part whose visited values all lie in 1..total_pages is accepted, also   *)
(* when its end is <= 0 and stepped over.                                  *)
(***************************************************************************)
C6_NonPositiveVisitedRejected ==
    \A i \in 1..Len(parts) : ProcessedAt(i) =>
        /\ \A t \in SingleToks :
               (parts[i] = t.tok /\ t.a <= 0) => RaisedWith(i, E_POSITIVE)
        /\ \A t \in PlainToks :
               (parts[i] = t.tok /\ (t.a <= 0 \/ t.b <= 0)) => RaisedWith(i, E_POSITIVE)
        /\ \A t \in SteppedToks : (parts[i] = t.tok /\ t.s # 0) =>
               /\ (/\ \E v \in Visited(t.a, t.b, t.s) : v <= 0
                   /\ (t.s > 0 \/ t.a = t.b \/ t.a <= total_pages))
                      => RaisedWith(i, E_POSITIVE)
               /\ (/\ Visited(t.a, t.b, t.s) # {}
                   /\ Visited(t.a, t.b, t.s) \subseteq 1..total_pages)
                      => AcceptedAt(i)

\* A descending stepped part has walked down onto its non-positive end and raised.
C6_Witness ==
    \E i \in 1..Len(parts) : \E t \in SteppedToks :
        /\ RaisedWith(i, E_POSITIVE)
        /\ parts[i] = t.tok
        /\ t.s < 0
        /\ t.b <= 0
        /\ Len(selected) > 0

(***************************************************************************)
(* C7, as stated.  A token whose start or end exceeds the page count, and  *)
(* that has no other fault (positive numbers, a step that is not 0 and     *)
(* moves from start toward end), fails with the out-of-bounds error, also  *)
(* when the iteration never lands on a value above the page count.         *)
(***************************************************************************)
C7_StatedAboveCountRejected ==
    ParseFinished =>
        /\ \A t \in SingleToks :
               (pages_expr = t.tok /\ t.a >= 1 /\ t.a > total_pages)
                   => (ParseRaised /\ error.msg = E_BOUNDS)
        /\ \A t \in PlainToks :
               (pages_expr = t.tok /\ 1 <= t.a /\ t.a <= t.b /\ t.b > total_pages)
                   => (ParseRaised /\ error.msg = E_BOUNDS)
        /\ \A t \in SteppedToks :
               (/\ pages_expr = t.tok
                /\ t.s # 0
                /\ (t.a = t.b \/ Sign(t.b - t.a) = Sign(t.s))
                /\ t.a >= 1 /\ t.b >= 1
                /\ (t.a > total_pages \/ t.b > total_pages))
                   => (ParseRaised /\ error.msg = E_BOUNDS)

(***************************************************************************)
(* C7, amended.  A part whose single value, plain-range end or visited     *)
(* value exceeds the page count (its numbers positive, its step not 0)     *)
(* raises the out-of-bounds error at that part.  A stepped part whose end  *)
(* exceeds the page count is accepted when every value the iteration       *)
(* visits lies in 1..total_pages.                                          *)
(***************************************************************************)
C7_VisitedAboveCountRejected ==
    \A i \in 1..Len(parts) : ProcessedAt(i) =>
        /\ \A t \in SingleToks :
               (parts[i] = t.tok /\ t.a >= 1 /\ t.a > total_pages) => RaisedWith(i, E_BOUNDS)
        /\ \A t \in PlainToks :
               (parts[i] = t.tok /\ 1 <= t.a /\ t.a <= t.b /\ t.b > total_pages)
                   => RaisedWith(i, E_BOUNDS)
        /\ \A t \in SteppedToks : (parts[i] = t.tok /\ t.s # 0) =>
               /\ (t.a >= 1 /\ \E v \in Visited(t.a, t.b, t.s) : v > total_pages)
                      => RaisedWith(i, E_BOUNDS)
               /\ (/\ t.b > total_pages
                   /\ Visited(t.a, t.b, t.s) # {}
                   /\ Visited(t.a, t.b, t.s) \subseteq 1..total_pages)
                      => AcceptedAt(i)

\* An ascending stepped part that starts within the page count has walked up
\* onto a value above it and raised.
C7_Witness ==
    \E i \in 1..Len(parts) : \E t \in SteppedToks :
        /\ RaisedWith(i, E_BOUNDS)
        /\ parts[i] = t.tok
        /\ t.s > 0
        /\ t.a <= total_pages
        /\ Len(selected) > 0
        /\ error.a > total_pages

(***************************************************************************)
(* C8, as stated.  A range token with start == end, whatever step is       *)
(* written, has the outcome of the single number start: the list           *)
(* [start-1] when 1 <= start <= total_pages, and else the failure of the   *)
(* single number.                                                          *)
(***************************************************************************)
C8_StartEqualsEndIsSingle ==
    ParseFinished =>
        /\ \A t \in SteppedToks : (pages_expr = t.tok /\ t.a = t.b) =>
               /\ RunOutcome = OutcomeOf(parse_pages(SingleForm(t.a), total_pages))
               /\ (1 <= t.a /\ t.a <= total_pages) =>
                      (ParseReturned /\ page_indices = <<t.a - 1>>)
        /\ \A t \in PlainToks : (pages_expr = t.tok /\ t.a = t.b) =>
               RunOutcome = OutcomeOf(parse_pages(SingleForm(t.a), total_pages))

(***************************************************************************)
(* C8, amended.  A stepped token with start == end and a step that is not  *)
(* 0 gives [start-1] when 1 <= start <= total_pages, the must-be-positive  *)
(* error when start <= 0 and the out-of-bounds error naming start when     *)
(* start > total_pages; for start >= 0 that is the outcome of the single   *)
(* number start.  With step 0 it fails with the zero-step error.  A plain  *)
(* range a-a has the outcome of the single number a.                       *)
(***************************************************************************)
C8_NonZeroStepCollapses ==
    ParseFinished =>
        /\ \A t \in SteppedToks : (pages_expr = t.tok /\ t.a = t.b) =>
               /\ t.s = 0 => (ParseRaised /\ error.msg = E_STEP_ZERO)
               /\ (t.s # 0 /\ 1 <= t.a /\ t.a <= total_pages) =>
                      (ParseReturned /\ page_indices = <<t.a - 1>>)
               /\ (t.s # 0 /\ t.a <= 0) => (ParseRaised /\ error.msg = E_POSITIVE)
               /\ (t.s # 0 /\ t.a > total_pages /\ t.a >= 1) =>
                      (ParseRaised /\ error.msg = E_BOUNDS
                         /\ error.a = t.a /\ error.b = total_pages)
               /\ (t.s # 0 /\ t.a >= 0) =>
                      RunOutcome = OutcomeOf(parse_pages(SingleForm(t.a), total_pages))
        /\ \A t \in PlainToks : (pages_expr = t.tok /\ t.a = t.b) =>
               RunOutcome = OutcomeOf(parse_pages(SingleForm(t.a), total_pages))

\* A stepped token with start == end and a step other than 0 and 1 has been
\* expanded to its single page.
C8_Witness ==
    \E t \in SteppedToks :
        /\ ParseReturned
        /\ pages_expr = t.tok
        /\ t.a = t.b
        /\ t.s \notin {0, 1}
        /\ page_indices = <<t.a - 1>>

(***************************************************************************)
(* C9.  A stepped part with start # end and step # 0 is rejected as        *)
(* non-progressing exactly when sign(end - start) differs from sign(step). *)
(***************************************************************************)
C9_ProgressIffSameSign ==
    \A i \in 1..Len(parts) : ProcessedAt(i) =>
        \A t \in SteppedToks : (parts[i] = t.tok /\ t.a # t.b /\ t.s # 0) =>
            (RaisedWith(i, E_PROGRESS) <=> Sign(t.b - t.a) # Sign(t.s))

\* A part with a negative start and a step longer than the distance from
\* start to end has been rejected as non-progressing.
C9_Witness ==
    \E i \in 1..Len(parts) : \E t \in SteppedToks :
        /\ RaisedWith(i, E_PROGRESS)
        /\ parts[i] = t.tok
        /\ t.a < 0
        /\ t.s * t.s > (t.b - t.a) * (t.b - t.a)

(***************************************************************************)
(* C10.  A plain range a-b of unsigned numbers with a > b always raises    *)
(* at that part; when b >= 1 the error is the start-greater-than-end       *)
(* error, also when a or b exceeds the page count.                         *)
(***************************************************************************)
C10_StartAfterEndRejected ==
    /\ \A i \in 1..Len(parts) : ProcessedAt(i) =>
           \A t \in PlainToks : (parts[i] = t.tok /\ t.a > t.b) =>
               /\ RaisedAt(i)
               /\ t.b >= 1 => error.msg = E_START_END
    /\ ParseFinished =>
           \A i \in 1..Len(parts) : \A t \in PlainToks :
               (parts[i] = t.tok /\ t.a > t.b) => ParseRaised

\* A plain range with start > end and both above the page count has been
\* rejected for start > end.
C10_Witness ==
    \E i \in 1..Len(parts) : \E t \in PlainToks :
        /\ RaisedWith(i, E_START_END)
        /\ parts[i] = t.tok
        /\ t.b > total_pages

(***************************************************************************)
(* C11.  A list that parse_pages returns holds at least one index, for     *)
(* every expression and page count; extract_pages adds pages and writes    *)
(* an output document only from a list that is not empty, the document     *)
(* written has at least one page, and the empty-selection error of         *)
(* extract_pages is never raised.                                          *)
(***************************************************************************)
C11_SelectionNeverEmpty ==
    /\ ParseReturned => Len(page_indices) >= 1
    /\ pc \in {"add_page", "write", "wrote"} => Len(page_indices) >= 1
    /\ (pc \in {"wrote", "done"} /\ ~print_only) => Len(fs[output_pdf.path]) >= 1
    /\ error.msg # E_NO_VALID

\* A plain range of one page (start = end) has been returned as a list of
\* one index, and a document of one page has been written from it.
C11_Witness ==
    /\ pc = "wrote"
    /\ \E t \in PlainToks : pages_expr = t.tok /\ t.a = t.b
    /\ Len(page_indices) = 1
    /\ Len(fs[output_pdf.path]) = 1

(***************************************************************************)
(* C12.  The tokens are the maximal runs of characters that are neither a  *)
(* comma nor whitespace, in the order they stand in the expression; no     *)
(* token is empty, so leading, trailing and repeated separators give no    *)
(* token.  An expression that is empty or holds only separators makes      *)
(* parse_pages raise one of its two empty-expression errors, and the run   *)
(* fails.                                                                  *)
(***************************************************************************)
SeparatorChars == {",", " ", "\t", "\n"}

\* The indices of s where a run of non-separators begins.
RunStarts(s) ==
    {i \in 1..Len(s) : s[i] \notin SeparatorChars /\ (i = 1 \/ s[i - 1] \in SeparatorChars)}

\* The index where the run of non-separators that begins at i ends.
RunEnd(s, i) ==
    CHOOSE j \in i..Len(s) :
        /\ \A k \in i..j : s[k] \notin SeparatorChars
        /\ (j = Len(s) \/ s[j + 1] \in SeparatorChars)

\* The maximal runs of non-separators of s, from left to right.
MaximalRuns(s) ==
    LET nth(n) == CHOOSE i \in RunStarts(s) :
                      Cardinality({j \in RunStarts(s) : j < i}) = n - 1
    IN  [n \in 1..Cardinality(RunStarts(s)) |-> SubSeq(s, nth(n), RunEnd(s, nth(n)))]

\* The messages of the two errors of an expression without a token.
EmptyExpressionErrors == {E_EMPTY, E_NO_PAGES}

C12_TokensAreMaximalRuns ==
    pp_pc \in {"for", "returned", "raised"} =>
        /\ parts = MaximalRuns(pages_expr)
        /\ \A i \in 1..Len(parts) : Len(parts[i]) >= 1
        /\ (\A i \in 1..Len(pages_expr) : pages_expr[i] \in SeparatorChars) =>
               /\ ParseRaised
               /\ pc = "failed"
               /\ error.msg \in EmptyExpressionErrors
               /\ Len(pages_expr) = 0 <=> error.msg = E_EMPTY

\* An expression with leading, trailing and repeated separators, a tab and
\* a newline among them, has been split into its two tokens, in order.
C12_Witness ==
    /\ pp_pc = "for"
    /\ pages_expr = <<" ", "2", " ", ",", "\t", "1", "\n">>
    /\ parts = << <<"2">>, <<"1">> >>

(***************************************************************************)
(* C13.  A token of none of the recognised forms (function form, double-   *)
(* dot stepped, colon stepped, plain range of unsigned numbers, unsigned   *)
(* number) makes parse_pages raise at that token an error about its        *)
(* syntax whose message names the token, and no list is returned.          *)
(***************************************************************************)
DecimalChars == {Digits[d] : d \in 1..10}

IsUnsignedNumber(p) == Len(p) >= 1 /\ \A i \in 1..Len(p) : p[i] \in DecimalChars

IsSignedNumber(p) ==
    IsUnsignedNumber(p) \/ (Len(p) >= 2 /\ p[1] = "-" /\ IsUnsignedNumber(Tail(p)))

\* a-b of unsigned numbers.
IsUnsignedRange(p) ==
    \E d \in 2..(Len(p) - 1) :
        /\ p[d] = "-"
        /\ IsUnsignedNumber(SubSeq(p, 1, d - 1))
        /\ IsUnsignedNumber(SubSeq(p, d + 1, Len(p)))

\* a-b:s of signed numbers.
IsColonForm(p) ==
    \E d \in 2..(Len(p) - 3) : \E c \in (d + 2)..(Len(p) - 1) :
        /\ p[d] = "-" /\ p[c] = ":"
        /\ IsSignedNumber(SubSeq(p, 1, d - 1))
        /\ IsSignedNumber(SubSeq(p, d + 1, c - 1))
        /\ IsSignedNumber(SubSeq(p, c + 1, Len(p)))

\* a..b..s of signed numbers.
IsDoubleDotForm(p) ==
    \E d \in 2..(Len(p) - 5) : \E c \in (d + 3)..(Len(p) - 2) :
        /\ p[d] = "." /\ p[d + 1] = "." /\ p[c] = "." /\ p[c + 1] = "."
        /\ IsSignedNumber(SubSeq(p, 1, d - 1))
        /\ IsSignedNumber(SubSeq(p, d + 2, c - 1))
        /\ IsSignedNumber(SubSeq(p, c + 2, Len(p)))

\* range(a,b,s) of signed numbers; a token holds no comma, so no token has
\* this form.
IsFunctionForm(p) ==
    /\ Len(p) >= 7
    /\ Lower(SubSeq(p, 1, 6)) = RANGE_OPEN
    /\ p[Len(p)] = ")"
    /\ LET nums == SplitCommaFrom(SubSeq(p, 7, Len(p) - 1), 1, <<>>)
       IN  Len(nums) = 3 /\ \A k \in 1..3 : IsSignedNumber(nums[k])

Recognised(p) ==
    \/ IsFunctionForm(p)
    \/ IsDoubleDotForm(p)
    \/ IsColonForm(p)
    \/ IsUnsignedRange(p)
    \/ IsUnsignedNumber(p)

\* The messages of the errors about the syntax of a token.
SyntaxErrors == {E_RANGE_FN, E_NEEDS_STEP, E_RANGE, E_PAGE, E_INT}

C13_UnrecognisedTokenNamed ==
    /\ \A i \in 1..Len(parts) : (ProcessedAt(i) /\ ~Recognised(parts[i])) =>
           /\ RaisedAt(i)
           /\ error.msg \in SyntaxErrors
           /\ error.part = parts[i]
    /\ ParseFinished =>
           ((\E i \in 1..Len(parts) : ~Recognised(parts[i])) => ParseRaised)

(***************************************************************************)
(* C14.  When extract_pages resolves the default output path of the input  *)
(* d.pdf or d (no extension), it takes d.selected.pdf when no such path    *)
(* exists, and else d.selected-k.pdf for the smallest k >= 1 whose path    *)
(* does not exist: the path taken does not exist at that moment, and       *)
(* every candidate before it does.                                         *)
(***************************************************************************)
\* The candidates in the order of the claim: d.selected.pdf, d.selected-1.pdf, ...
D_SELECTED == <<"d", ".", "s", "e", "l", "e", "c", "t", "e", "d">>

DefaultCandidate(k) ==
    IF k = 0 THEN D_SELECTED \o <<".", "p", "d", "f">>
    ELSE D_SELECTED \o <<"-">> \o NatStr(k) \o <<".", "p", "d", "f">>

C14_DefaultPathFirstFree ==
    [][(pc = "add_page" /\ pc' = "write" /\ output_pdf.none) =>
           \E k \in 0..(MaxExisting + 1) :
               /\ output_pdf' = [none |-> FALSE, path |-> DefaultCandidate(k)]
               /\ DefaultCandidate(k) \notin (DOMAIN fs \cup dirs)
               /\ \A j \in 0..(k - 1) : DefaultCandidate(j) \in (DOMAIN fs \cup dirs)]_vars

\* With d.selected.pdf and d.selected-1.pdf present, the output of d.pdf
\* has been resolved to d.selected-2.pdf.
C14_Witness ==
    /\ pc = "write"
    /\ input_pdf = D_PDF
    /\ {DefaultCandidate(0), DefaultCandidate(1)} \subseteq DOMAIN fs
    /\ output_pdf.path = DefaultCandidate(2)
    /\ DefaultCandidate(2) \notin DOMAIN fs

(***************************************************************************)
(* C15.  When an output path is supplied, the resolution step of           *)
(* extract_pages leaves it as it is, also when the path exists; the write  *)
(* step then puts the document at exactly that path and changes no other   *)
(* file, and the path is what main prints after "Wrote: ".                 *)
(***************************************************************************)
C15_ExplicitOutputVerbatim ==
    [][/\ (pc = "add_page" /\ pc' = "write" /\ ~output_pdf.none) => output_pdf' = output_pdf
       /\ pc \in {"write", "wrote"} => output_pdf' = output_pdf
       /\ (pc = "write" /\ pc' = "wrote") =>
              /\ DOMAIN fs' = DOMAIN fs \cup {output_pdf.path}
              /\ fs'[output_pdf.path] = writer
              /\ \A q \in DOMAIN fs \ {output_pdf.path} : fs'[q] = fs[q]
       /\ (pc = "wrote" /\ pc' = "done") =>
              stdout' = Append(stdout, <<"W", "r", "o", "t", "e", ":", " ">> \o output_pdf.path)
      ]_vars

\* The supplied path o.pdf, where another document exists, has been taken as
\* the output path, and the document is about to be written there.
C15_Witness ==
    /\ pc = "write"
    /\ output_pdf = [none |-> FALSE, path |-> O_PDF]
    /\ O_PDF \in DOMAIN fs
    /\ fs[O_PDF] = OtherDoc
    /\ Len(writer) >= 1

(***************************************************************************)
(* C16.  A run with --print-only never enters extract_pages: it resolves   *)
(* no output path (output_pdf stays what the arguments gave), adds no page *)
(* to a writer, and no step of it changes the files or the directories,    *)
(* whether the expression is valid or not.                                 *)
(***************************************************************************)
C16_PrintOnlyTouchesNothing ==
    /\ [](print_only =>
             /\ pc \in {"main", "parse_pages", "print_only", "done", "failed"}
             /\ writer = <<>>)
    /\ [][print_only => (fs' = fs /\ dirs' = dirs /\ output_pdf' = output_pdf)]_vars

\* A --print-only run given the output path o.pdf has printed its list and
\* ended, and no o.pdf exists.
C16_Witness ==
    /\ print_only
    /\ pc = "done"
    /\ Len(stdout) = 1
    /\ output_pdf = [none |-> FALSE, path |-> O_PDF]
    /\ O_PDF \notin DOMAIN fs

(***************************************************************************)
(* C17.  A line of standard output that reads back, split at its commas,   *)
(* as the page numbers idx + 1 of the selection list is the list line.     *)
(* A run without --print-only that has ended successfully has printed      *)
(* exactly the list line and then "Wrote: " with the resolved output       *)
(* path; a "Wrote: " line is only ever the last line of such a run, and    *)
(* when it stands in the output the document is in the file at that path.  *)
(* A --print-only run that has ended successfully has printed the list     *)
(* line and nothing else; whatever a run prints first is the list line.    *)
(***************************************************************************)
WroteLine(path) == <<"W", "r", "o", "t", "e", ":", " ">> \o path

IsWroteLine(line) == Len(line) >= 7 /\ SubSeq(line, 1, 7) = WroteLine(<<>>)

\* line is the numbers idx + 1 of indices in decimal, no leading zero,
\* with a comma between two numbers.
IsListLine(line, indices) ==
    LET nums == SplitCommaFrom(line, 1, <<>>)
    IN  /\ Len(nums) = Len(indices)
        /\ \A k \in 1..Len(nums) :
               /\ IsUnsignedNumber(nums[k])
               /\ nums[k][1] # "0"
               /\ DigitsValue(nums[k]) = indices[k] + 1

C17_StdoutContract ==
    /\ (pc = "done" /\ ~print_only) =>
           /\ Len(stdout) = 2
           /\ IsListLine(stdout[1], page_indices)
           /\ stdout[2] = WroteLine(output_pdf.path)
    /\ (pc = "done" /\ print_only) =>
           /\ Len(stdout) = 1
           /\ IsListLine(stdout[1], page_indices)
    /\ Len(stdout) >= 1 => (ParseReturned /\ IsListLine(stdout[1], page_indices))
    /\ \A n \in 1..Len(stdout) : IsWroteLine(stdout[n]) =>
           /\ n = 2 /\ Len(stdout) = 2
           /\ ~print_only
           /\ pc = "done"
           /\ output_pdf.path \in DOMAIN fs
           /\ fs[output_pdf.path] = writer
           /\ Len(writer) = Len(page_indices)

\* A run without --print-only has printed the list line of a list of three
\* indices that is not sorted, then the "Wrote: " line, and has ended.
C17_Witness ==
    /\ pc = "done"
    /\ ~print_only
    /\ page_indices = <<1, 0, 1>>
    /\ stdout[1] = <<"2", ",", "1", ",", "2">>
    /\ IsWroteLine(stdout[2])

(***************************************************************************)
(* C18.  In a run whose expression is not valid for the page count of the  *)
(* opened document, parse_pages raises its error and the run is failed     *)
(* with that error: nothing is printed (no list, no "Wrote:"), no page is  *)
(* added to a writer, and up to and in the failed state no step resolves   *)
(* an output path or changes the files; the failed state is terminal.      *)
(***************************************************************************)
C18_ValidationFailureAborts ==
    /\ []((pp_pc # "idle" /\ ~parse_pages(pages_expr, total_pages).ok) =>
             /\ pc \in {"parse_pages", "failed"}
             /\ stdout = <<>>
             /\ writer = <<>>
             /\ ParseFinished =>
                    /\ ParseRaised
                    /\ pc = "failed"
                    /\ error = parse_pages(pages_expr, total_pages).err)
    /\ [][(pc \in {"main", "parse_pages"}) => UNCHANGED <<fs, dirs, output_pdf, stdout>>]_vars
    /\ [][pc # "failed"]_vars

\* A run without --print-only has failed at its second token, after the
\* first was accepted, and nothing has been printed or resolved.
C18_Witness ==
    /\ ~print_only
    /\ pc = "failed"
    /\ ParseRaised
    /\ part_i = 2
    /\ Len(selected) >= 1
    /\ stdout = <<>>
    /\ output_pdf = NoOutput

(***************************************************************************)
(* C20.  When the expression is one stepped token a-b:s or a..b..s and     *)
(* parse_pages returns, the list is a-1, a+s-1, a+2s-1, ... with           *)
(* floor((b-a)/s) + 1 elements: its page numbers are exactly the values    *)
(* a+ks (k >= 0) that are <= b for s > 0 and >= b for s < 0, the first     *)
(* element is a-1, consecutive elements differ by s, and b-1 is the last   *)
(* element exactly when s divides b-a.                                     *)
(***************************************************************************)
Abs(x) == IF x < 0 THEN 0 - x ELSE x

\* floor((b - a) / s) + 1 for a step that moves from a toward b.
TermCount(a, b, s) ==
    1 + CHOOSE q \in 0..Abs(b - a) : q * Abs(s) <= Abs(b - a) /\ Abs(b - a) < (q + 1) * Abs(s)

\* The values a + k*s, k >= 0, on the side of b the step moves from.
Progression(a, b, s) ==
    {v \in (0 - 2 * MaxPages - 2)..(2 * MaxPages + 2) :
        /\ \E k \in 0..(2 * MaxPages + 2) : v = a + k * s
        /\ IF s > 0 THEN v <= b ELSE v >= b}

C20_SteppedExpansion ==
    \A t \in SteppedToks : (ParseReturned /\ pages_expr = t.tok) =>
        /\ t.s # 0
        /\ Len(page_indices) = TermCount(t.a, t.b, t.s)
        /\ \A k \in 1..Len(page_indices) : page_indices[k] = t.a + (k - 1) * t.s - 1
        /\ {page_indices[k] + 1 : k \in 1..Len(page_indices)} = Progression(t.a, t.b, t.s)
        /\ page_indices[1] = t.a - 1
        /\ \A k \in 1..(Len(page_indices) - 1) : page_indices[k + 1] - page_indices[k] = t.s
        /\ page_indices[Len(page_indices)] = t.b - 1 <=> (t.b - t.a) % Abs(t.s) = 0

\* A descending token whose step is longer than one page and does not
\* divide end - start has been expanded: its end is stepped over.
C20_Witness ==
    \E t \in SteppedToks :
        /\ ParseReturned
        /\ pages_expr = t.tok
        /\ t.s < 0 - 1
        /\ (t.a - t.b) % (0 - t.s) # 0
        /\ Len(page_indices) >= 2
        /\ page_indices[Len(page_indices)] > t.b - 1

(***************************************************************************)
(* C21.  When the expression is one plain range a-b with                   *)
(* 1 <= a <= b <= total_pages, parse_pages returns the b-a+1 indices       *)
(* a-1, a, ..., b-1 in ascending order; when it is one number n with       *)
(* 1 <= n <= total_pages it returns [n-1]; a-a gives the list of a.        *)
(***************************************************************************)
C21_PlainExpansion ==
    ParseFinished =>
        /\ \A t \in PlainToks :
               (pages_expr = t.tok /\ 1 <= t.a /\ t.a <= t.b /\ t.b <= total_pages) =>
                   /\ ParseReturned
                   /\ Len(page_indices) = t.b - t.a + 1
                   /\ \A k \in 1..Len(page_indices) : page_indices[k] = t.a - 1 + (k - 1)
                   /\ t.a = t.b => page_indices = <<t.a - 1>>
        /\ \A t \in SingleToks :
               (pages_expr = t.tok /\ 1 <= t.a /\ t.a <= total_pages) =>
                   (ParseReturned /\ page_indices = <<t.a - 1>>)

\* A plain range from the first to the last page of a document of at least
\* three pages has been expanded.
C21_Witness ==
    \E t \in PlainToks :
        /\ ParseReturned
        /\ pages_expr = t.tok
        /\ t.a = 1
        /\ t.b = total_pages
        /\ total_pages >= 3
        /\ Len(page_indices) = total_pages

(***************************************************************************)
(* C22, as stated.  When a stepped or plain range part raises the          *)
(* out-of-bounds error, the error names the first value in iteration       *)
(* order that exceeds the page count, and the page count.                  *)
(***************************************************************************)
\* The least element of a non-empty set of integers.
Least(S) == CHOOSE v \in S : \A w \in S : v <= w

\* The first value above total in the order a stepped range visits its
\* values: the least one when it ascends, the start when it descends.
FirstAboveStepped(a, b, s, total) ==
    IF s > 0 /\ a # b THEN Least({v \in Visited(a, b, s) : v > total}) ELSE a

\* The first page above total that the plain range a-b reaches.
FirstAbovePlain(a, b, total) == Least({v \in a..b : v > total})

C22_FirstExceedingNamed ==
    \A i \in 1..Len(parts) : RaisedWith(i, E_BOUNDS) =>
        /\ \A t \in SteppedToks : parts[i] = t.tok =>
               (error.a = FirstAboveStepped(t.a, t.b, t.s, total_pages)
                   /\ error.b = total_pages)
        /\ \A t \in PlainToks : parts[i] = t.tok =>
               (error.a = FirstAbovePlain(t.a, t.b, total_pages) /\ error.b = total_pages)

(***************************************************************************)
(* C22, amended.  When a stepped part raises the out-of-bounds error, the  *)
(* error names the first value in iteration order that exceeds the page    *)
(* count, and the page count.  When a plain range part raises it, the      *)
(* error names the end of the range, and the page count, also when the     *)
(* range starts within the page count and would reach a smaller page       *)
(* above it first.                                                         *)
(***************************************************************************)
C22_SteppedFirstPlainEnd ==
    \A i \in 1..Len(parts) : RaisedWith(i, E_BOUNDS) =>
        /\ \A t \in SteppedToks : parts[i] = t.tok =>
               /\ error.a = FirstAboveStepped(t.a, t.b, t.s, total_pages)
               /\ error.a > total_pages
               /\ error.b = total_pages
               /\ t.s > 0 =>
                      \A v \in Visited(t.a, t.b, t.s) : v < error.a => v \in 1..total_pages
        /\ \A t \in PlainToks : parts[i] = t.tok =>
               (error.a = t.b /\ error.b = total_pages)

\* A plain range that starts within the page count and ends more than one
\* page above it has raised the out-of-bounds error, which names its end.
C22_Witness ==
    \E i \in 1..Len(parts) : \E t \in PlainToks :
        /\ RaisedWith(i, E_BOUNDS)
        /\ parts[i] = t.tok
        /\ t.a <= total_pages
        /\ t.b > total_pages + 1
        /\ error.a = t.b

(***************************************************************************)
(* C23, as stated.  At the moment the zero-step error is raised the        *)
(* selection holds no index of any token, the tokens to the left of the    *)
(* zero-step token included.                                               *)
(***************************************************************************)
C23_NothingEmittedAtZeroStep ==
    \A i \in 1..Len(parts) : RaisedWith(i, E_STEP_ZERO) => selected = <<>>

(***************************************************************************)
(* C23, amended.  When the loop reaches a stepped part with step 0 it      *)
(* raises the zero-step error before any check or expansion of that part,  *)
(* whatever its start and end: the selection then holds exactly the        *)
(* indices of the parts to its left, and none of them is returned or       *)
(* printed.                                                                *)
(***************************************************************************)
C23_ZeroStepBeforeOwnExpansion ==
    \A i \in 1..Len(parts) : ProcessedAt(i) =>
        \A t \in SteppedToks : (parts[i] = t.tok /\ t.s = 0) =>
            /\ RaisedWith(i, E_STEP_ZERO)
            /\ selected = ConcatExpansions(SubSeq(parts, 1, i - 1), total_pages)
            /\ page_indices = <<>>
            /\ stdout = <<>>
            /\ pc = "failed"

\* The zero-step error has been raised at the second part, with the index of
\* the first part in the selection.
C23_Witness ==
    \E t \in SteppedToks :
        /\ RaisedWith(2, E_STEP_ZERO)
        /\ parts[2] = t.tok
        /\ t.s = 0
        /\ Len(selected) >= 1

(***************************************************************************)
(* C24.  The expression "a - b : c", the colon form with a space on each   *)
(* side of the dash and the colon, has the outcome of "a-b:c": the same    *)
(* list, or the same error.                                                *)
(***************************************************************************)
SpacedToks ==
    {[tok |-> SpacedColonForm(a, b, s), a |-> a, b |-> b, s |-> s] :
        a \in Nums, b \in Nums, s \in {0 - 1, 1}}

C24_SpacedColonSame ==
    \A t \in SpacedToks : (ParseFinished /\ pages_expr = t.tok) =>
        RunOutcome = OutcomeOf(parse_pages(ColonForm(t.a, t.b, t.s), total_pages))

(***************************************************************************)
(* C25.  The loop of parse_pages over the parts takes one step for each    *)
(* part and never runs past the last part.  For a stepped token with       *)
(* start # end and step # 0, a step whose sign does not move start toward  *)
(* end is rejected before the loop (no iteration), and otherwise the loop  *)
(* runs at most floor((end-start)/step) + 1 iterations; an iteration       *)
(* appends one index or raises.                                            *)
(***************************************************************************)
\* The iterations of the while loop of the one stepped token of the
\* expression: the indices appended, and the iteration that raised, if any.
LoopIterations ==
    Len(selected) + (IF ParseRaised /\ error.msg \in {E_POSITIVE, E_BOUNDS} THEN 1 ELSE 0)

C25_LoopsBounded ==
    /\ pc = "parse_pages" => (pp_pc \in {"entry", "for"} /\ part_i <= Len(parts) + 1)
    /\ ParseFinished => (part_i <= Len(parts) + 1 /\ pc # "parse_pages")
    /\ \A t \in SteppedToks :
           (ParseFinished /\ pages_expr = t.tok /\ t.a # t.b /\ t.s # 0) =>
               IF Sign(t.b - t.a) # Sign(t.s)
               THEN RaisedWith(1, E_PROGRESS) /\ selected = <<>>
               ELSE LoopIterations >= 1 /\ LoopIterations <= TermCount(t.a, t.b, t.s)

\* The loop of an ascending token whose step does not divide end - start
\* has run floor((end-start)/step) + 1 >= 2 iterations and parse_pages has
\* returned.
C25_Witness ==
    \E t \in SteppedToks :
        /\ ParseReturned
        /\ pages_expr = t.tok
        /\ t.s >= 2
        /\ (t.b - t.a) % t.s # 0
        /\ Len(page_indices) >= 2
        /\ Len(page_indices) = TermCount(t.a, t.b, t.s)

(***************************************************************************)
(* C26.  A run that has added every selected page to the writer does not   *)
(* fail: when the directory of the resolved output path does not exist it  *)
(* is created, and the document is written at the path.                    *)
(***************************************************************************)
C26_MissingDirsCreated ==
    (ParseReturned /\ ~print_only /\ Len(writer) = Len(page_indices)) =>
        /\ pc # "failed"
        /\ pc \in {"wrote", "done"} =>
               (output_pdf.path \in DOMAIN fs /\ DirName(output_pdf.path) \in dirs)

(***************************************************************************)
(* C27.  For 1 <= a < b <= total_pages and s > 0 dividing b - a, the       *)
(* expression b-a:-s, and likewise b..a..-s, is expanded to the reverse    *)
(* of the list that a-b:s and a..b..s are expanded to.                     *)
(***************************************************************************)
Reverse(seq) == [k \in 1..Len(seq) |-> seq[Len(seq) + 1 - k]]

C27_ReversalSymmetry ==
    \A t \in SteppedToks :
        (/\ ParseFinished
         /\ pages_expr = t.tok
         /\ t.s < 0
         /\ 1 <= t.b /\ t.b < t.a /\ t.a <= total_pages
         /\ (t.a - t.b) % (0 - t.s) = 0)
            => /\ ParseReturned
               /\ parse_pages(ColonForm(t.b, t.a, 0 - t.s), total_pages).ok
               /\ page_indices
                      = Reverse(parse_pages(ColonForm(t.b, t.a, 0 - t.s), total_pages).selected)
               /\ page_indices
                      = Reverse(parse_pages(DoubleDotForm(t.b, t.a, 0 - t.s),
                                            total_pages).selected)
               /\ page_indices[1] = t.a - 1
               /\ page_indices[Len(page_indices)] = t.b - 1

\* A descending token with a step of two pages or more that divides
\* start - end has been expanded from its start down to its end.
C27_Witness ==
    \E t \in SteppedToks :
        /\ ParseReturned
        /\ pages_expr = t.tok
        /\ t.s <= 0 - 2
        /\ (t.a - t.b) % (0 - t.s) = 0
        /\ Len(page_indices) >= 2
        /\ page_indices[Len(page_indices)] = t.b - 1

(***************************************************************************)
(* C28.  When parse_pages returns a list for an expression and a page      *)
(* count, it returns the same list for the same expression and every       *)
(* larger page count.                                                      *)
(***************************************************************************)
C28_MonotoneInPageCount ==
    ParseReturned =>
        \A larger \in total_pages..(MaxPages + 1) :
            /\ parse_pages(pages_expr, larger).ok
            /\ parse_pages(pages_expr, larger).selected = page_indices

\* A list of two or more indices that reaches the last page of a document
\* smaller than the largest one has been returned.
C28_Witness ==
    /\ ParseReturned
    /\ total_pages < MaxPages
    /\ Len(page_indices) >= 2
    /\ \E k \in 1..Len(page_indices) : page_indices[k] = total_pages - 1

(***************************************************************************)
(* C29.  When some token of the expression fails when parsed alone,        *)
(* parse_pages raises at the first such token exactly the error that       *)
(* token raises alone, whatever the later tokens are; the indices          *)
(* collected from the tokens before it are neither returned nor printed.   *)
(***************************************************************************)
FailsAlone(part, total) == ~parse_pages(part, total).ok

C29_LeftmostFailureWins ==
    (ParseFinished /\ \E j \in 1..Len(parts) : FailsAlone(parts[j], total_pages)) =>
        LET i == Least({j \in 1..Len(parts) : FailsAlone(parts[j], total_pages)})
        IN  /\ RaisedAt(i)
            /\ error = parse_pages(parts[i], total_pages).err
            /\ \A j \in 1..(i - 1) : AcceptedAt(j)
            /\ page_indices = <<>>
            /\ stdout = <<>>
            /\ pc = "failed"

\* The first of two tokens that fail alone with different errors has raised
\* its error.
C29_Witness ==
    /\ Len(parts) = 2
    /\ RaisedAt(1)
    /\ FailsAlone(parts[2], total_pages)
    /\ parse_pages(parts[2], total_pages).err.msg # error.msg
    /\ error = parse_pages(parts[1], total_pages).err

(***************************************************************************)
(* C30. In EnhancedAudioLooperApp, under every interleaving of play_loop,  *)
(* stop_audio and the loop threads, at most one loop thread is inside      *)
(* play() at a time, and a thread that was started before a stop_audio ran *)
(* never calls play() again after it, also when play_loop is called again  *)
(* while that thread is still inside its blocking play().                  *)
(***************************************************************************)
\* The threads inside the blocking play(enhanced_segment).
PlayingThreads == {t \in LoopThreadIds : loop_threads[t] = "play"}

C30_AtMostOneLoopPlaying ==
    /\ Cardinality(PlayingThreads) <= 1
    /\ replayed = {}

====
